---- MODULE Spec2Model ----
(***************************************************************************)
(* Model of the OHLCV candle store of asset-manager                        *)
(* (src/storage/repositories/ohlcv-repository.ts over the SQLite schema of *)
(* src/storage/schema/migrations.sql), of its statistics engine            *)
(* (src/analytics/time-series-statistics-engine.ts, numbers held as exact  *)
(* fractions with IEEE 754's NaN and infinities) and of the ingestion      *)
(* service (src/ingestion/market-data/ohlcv-ingestion-service.ts).         *)
(*                                                                         *)
(* The two tables are sets of rows.  Every repository method is one action *)
(* (better-sqlite3 is synchronous, so a method runs to completion); the    *)
(* record `last` holds the arguments and the outcome of the latest call;   *)
(* last.again tells that the call before it was a successful call of the   *)
(* same method on the same key (create) or cutoff (archiveDataBeforeDate); *)
(* faultAt is the statement of a transaction at which the storage engine   *)
(* fails (0: at none).                                                     *)
(*                                                                         *)
(* Where several connections write to the database at once, `callers`      *)
(* holds the position of each of them inside its call, and SQLite runs one *)
(* statement or one transaction at a time.  `sync` is the state of a       *)
(* running OHLCVIngestionService.syncOHLCV call: its per-symbol tasks, the *)
(* summaries pushed so far and totalInserted.                              *)
(***************************************************************************)
EXTENDS Integers, Sequences, FiniteSets, TLC

VARIABLES ohlcv_data, ohlcv_data_archive, tick, last, callers, sync

vars == <<ohlcv_data, ohlcv_data_archive, tick, last, callers, sync>>

(***************************************************************************)
(* Bounds of the model.                                                    *)
(***************************************************************************)
\* rows ever committed to ohlcv_data (identifiers and instants handed out)
MaxTick == 2
\* longest batch handed to bulkCreate
MaxBatch == 2
\* rows ever committed to ohlcv_data where compressed candles are built
MaxCandles == 4
\* rows ever committed to ohlcv_data where the reading methods are called
MaxStored == 3
\* longest number sequence handed to the statistics engine
MaxLen == 3
\* most series handed to calculateCorrelationMatrix
MaxSeries == 2
\* connections writing to the database at once
MaxCallers == 2
\* most symbols in one syncOHLCV request
MaxSymbols == 2

(***************************************************************************)
(* Values.                                                                 *)
(***************************************************************************)
\* SQL NULL / JavaScript null in a text column
Null == "null"
\* JavaScript null where an OHLCVData object is expected (no row has id 0)
NullRecord == [id |-> 0]
Undefined == "undefined"
NoError == "none"
StorageError == "SqliteError"
RetrieveError == "Failed to insert or retrieve OHLCV data"

\* assets(id) rows that the foreign key of ohlcv_data.asset_id refers to
assets == {"BTC", "ETH"}

\* an asset id with no row in assets
GhostAsset == "XXX"

\* decimal strings: <<numeric value, written in JavaScript's canonical form>>
Dec(n) == <<n, TRUE>>
DecPadded(n) == <<n, FALSE>>

\* Date.prototype.toISOString on instants counted in minutes: a fixed-width
\* digit string, most significant digit first
toISOString(t) == <<t \div 10, t % 10>>

\* new Date(isoString)
NewDate(s) == s[1] * 10 + s[2]

\* SQLite's text comparison of two ISO strings (timestamp < ?)
IsoLess(a, b) == a[1] < b[1] \/ (a[1] = b[1] /\ a[2] < b[2])

\* JavaScript's `source || null`
OrNull(source) == IF source \in {Undefined, ""} THEN Null ELSE source

(***************************************************************************)
(* Inputs: the requests, batches and arguments the callers draw from.      *)
(***************************************************************************)
Profile1 == [open |-> Dec(10), high |-> Dec(15), low |-> Dec(9), close |-> Dec(12), volume |-> Dec(5)]
Profile2 == [open |-> Dec(12), high |-> Dec(14), low |-> Dec(11), close |-> Dec(13), volume |-> DecPadded(3)]

Request(a, tf, t, p, src) ==
    [assetId |-> a, timeframe |-> tf, timestamp |-> t,
     open |-> p.open, high |-> p.high, low |-> p.low, close |-> p.close,
     volume |-> p.volume, source |-> src]

RequestPool ==
    { Request("BTC", "1m", 0, Profile1, "binance"),
      Request("BTC", "1m", 0, Profile2, "kraken"),
      Request("BTC", "1m", 4, Profile2, "binance"),
      Request("BTC", "5m", 0, Profile2, "binance"),
      Request("ETH", "1m", 10, Profile1, Undefined),
      Request(GhostAsset, "1m", 0, Profile1, "binance") }

CutoffPool == {4, 11}

(***************************************************************************)
(* Rows and the statements of the repository.                              *)
(***************************************************************************)
\* the columns of idx_ohlcv_unique
Key(row) == <<row.asset_id, row.timeframe, row.timestamp>>

\* the same columns as a request binds them
KeyOfRequest(request) ==
    <<request.assetId, request.timeframe, toISOString(request.timestamp)>>

\* the parameters create/bulkCreate bind to the INSERT statement
RowOf(request, id, createdAt) ==
    [id |-> id, asset_id |-> request.assetId, timeframe |-> request.timeframe,
     timestamp |-> toISOString(request.timestamp),
     open |-> request.open, high |-> request.high, low |-> request.low,
     close |-> request.close, volume |-> request.volume,
     source |-> OrNull(request.source), created_at |-> createdAt]

\* the OHLCVData object create builds before the INSERT
ObjectOf(request, id, createdAt) ==
    [id |-> id, assetId |-> request.assetId, timeframe |-> request.timeframe,
     timestamp |-> request.timestamp,
     open |-> request.open, high |-> request.high, low |-> request.low,
     close |-> request.close, volume |-> request.volume,
     source |-> request.source, createdAt |-> createdAt]

mapRowToOHLCV(row) ==
    [id |-> row.id, assetId |-> row.asset_id, timeframe |-> row.timeframe,
     timestamp |-> NewDate(row.timestamp),
     open |-> row.open, high |-> row.high, low |-> row.low,
     close |-> row.close, volume |-> row.volume,
     source |-> row.source, createdAt |-> row.created_at]

\* InsertOrIgnore with idx_ohlcv_unique missing: only the primary key collides
InsertWithoutUniqueIndex(table, row, fault) ==
    IF fault
    THEN [table |-> table, changes |-> 0, error |-> StorageError]
    ELSE IF \E r \in table : r.id = row.id
    THEN [table |-> table, changes |-> 0, error |-> NoError]
    ELSE IF row.asset_id \notin assets
    THEN [table |-> table, changes |-> 0, error |-> StorageError]
    ELSE [table |-> table \cup {row}, changes |-> 1, error |-> NoError]

\* InsertOrIgnore written as INSERT OR REPLACE: the colliding rows give way
InsertOrReplace(table, row, fault) ==
    IF fault \/ row.asset_id \notin assets
    THEN [table |-> table, changes |-> 0, error |-> StorageError]
    ELSE [table |-> {r \in table : r.id # row.id /\ Key(r) # Key(row)} \cup {row},
          changes |-> 1, error |-> NoError]

\* INSERT OR IGNORE INTO ohlcv_data: a row that collides on the primary key
\* or on idx_ohlcv_unique is skipped (changes = 0); the foreign key on
\* asset_id (foreign_keys = ON) is not subject to OR IGNORE and fails the
\* statement; `fault` is a failure of the storage engine itself (I/O, disk full)
InsertOrIgnore(table, row, fault) ==
    IF fault
    THEN [table |-> table, changes |-> 0, error |-> StorageError]
    ELSE IF \E r \in table : r.id = row.id \/ Key(r) = Key(row)
    THEN [table |-> table, changes |-> 0, error |-> NoError]
    ELSE IF row.asset_id \notin assets
    THEN [table |-> table, changes |-> 0, error |-> StorageError]
    ELSE [table |-> table \cup {row}, changes |-> 1, error |-> NoError]

\* getByAssetTimeframeTimestamp binding the timestamp in another rendering
\* than the one the INSERT stored (here: shifted by one minute)
getByShiftedTimestamp(table, assetId, timeframe, timestamp) ==
    LET hits == {r \in table : Key(r) = <<assetId, timeframe, toISOString(timestamp + 1)>>}
    IN  IF hits = {} THEN NullRecord ELSE mapRowToOHLCV(CHOOSE r \in hits : TRUE)

getByAssetTimeframeTimestamp(table, assetId, timeframe, timestamp) ==
    LET hits == {r \in table : Key(r) = <<assetId, timeframe, toISOString(timestamp)>>}
    IN  IF hits = {} THEN NullRecord ELSE mapRowToOHLCV(CHOOSE r \in hits : TRUE)

(***************************************************************************)
(* create                                                                  *)
(***************************************************************************)
\* create returning the object it built even when the INSERT was ignored
createWithoutRefetch(request) ==
    /\ LET id == tick + 1
           res == InsertOrIgnore(ohlcv_data, RowOf(request, id, tick + 1), FALSE)
       IN  /\ ohlcv_data' = res.table
           /\ tick' = tick + res.changes
           /\ last' = [op |-> "create", request |-> request, changes |-> res.changes,
                       again |-> /\ last.op = "create"
                                 /\ last.error = NoError
                                 /\ KeyOfRequest(last.request) = KeyOfRequest(request),
                       error |-> res.error,
                       returned |-> IF res.error # NoError THEN NullRecord
                                    ELSE ObjectOf(request, id, tick + 1)]
    /\ UNCHANGED ohlcv_data_archive

create(request) ==
    /\ LET id == tick + 1
           res == InsertOrIgnore(ohlcv_data, RowOf(request, id, tick + 1), FALSE)
           existing == getByAssetTimeframeTimestamp(res.table, request.assetId,
                                                    request.timeframe, request.timestamp)
       IN  /\ ohlcv_data' = res.table
           /\ tick' = tick + res.changes
           /\ last' = [op |-> "create", request |-> request, changes |-> res.changes,
                       again |-> /\ last.op = "create"
                                 /\ last.error = NoError
                                 /\ KeyOfRequest(last.request) = KeyOfRequest(request),
                       error |-> IF res.error # NoError THEN res.error
                                 ELSE IF res.changes = 0 /\ existing = NullRecord THEN RetrieveError
                                 ELSE NoError,
                       returned |-> IF res.error # NoError THEN NullRecord
                                    ELSE IF res.changes = 0 THEN existing
                                    ELSE ObjectOf(request, id, tick + 1)]
    /\ UNCHANGED ohlcv_data_archive

(***************************************************************************)
(* db.transaction(fn)(): BEGIN, run fn, COMMIT; when fn throws, ROLLBACK   *)
(* and rethrow.  `before` and `after` are the database before and after fn.*)
(***************************************************************************)
\* db.transaction(fn)() without the ROLLBACK: fn run outside a transaction
TransactionWithoutRollback(before, after, error) == after

Transaction(before, after, error) == IF error # NoError THEN before ELSE after

(***************************************************************************)
(* bulkCreate                                                              *)
(***************************************************************************)
\* insertMany counting every statement it ran, not only those with changes > 0
RECURSIVE insertManyCountingAll(_, _, _, _)
insertManyCountingAll(requests, i, table, n) ==
    IF i > Len(requests)
    THEN [table |-> table, insertedCount |-> Len(requests), error |-> NoError]
    ELSE LET res == InsertOrIgnore(table, RowOf(requests[i], tick + n + 1, tick + n + 1),
                                   FALSE)
         IN  IF res.error # NoError
             THEN [table |-> res.table, insertedCount |-> n, error |-> res.error]
             ELSE insertManyCountingAll(requests, i + 1, res.table, n + res.changes)

\* the body of insertMany from request i on: n rows inserted so far
RECURSIVE insertMany(_, _, _, _)
insertMany(requests, i, table, n) ==
    IF i > Len(requests)
    THEN [table |-> table, insertedCount |-> n, error |-> NoError]
    ELSE LET res == InsertOrIgnore(table, RowOf(requests[i], tick + n + 1, tick + n + 1),
                                   FALSE)
         IN  IF res.error # NoError
             THEN [table |-> res.table, insertedCount |-> n, error |-> res.error]
             ELSE insertMany(requests, i + 1, res.table, n + res.changes)

bulkCreate(requests) ==
    /\ LET out == insertMany(requests, 1, ohlcv_data, 0)
       IN  /\ ohlcv_data' = Transaction(ohlcv_data, out.table, out.error)
           /\ tick' = IF out.error # NoError THEN tick ELSE tick + out.insertedCount
           /\ last' = [op |-> "bulkCreate", requests |-> requests, error |-> out.error,
                       returned |-> IF out.error # NoError THEN -1 ELSE out.insertedCount]
    /\ UNCHANGED ohlcv_data_archive

\* the requests batches are made of: a key twice with different values, a row
\* of another asset, and a row whose asset does not exist
BatchPool ==
    { Request("BTC", "1m", 0, Profile1, "binance"),
      Request("BTC", "1m", 0, Profile2, "kraken"),
      Request("ETH", "1m", 10, Profile1, Undefined),
      Request(GhostAsset, "1m", 0, Profile1, "binance") }

Batches == UNION {[1..n -> BatchPool] : n \in 0..MaxBatch}

(***************************************************************************)
(* delete, deleteBeforeDate                                                *)
(***************************************************************************)
delete(id) ==
    /\ ohlcv_data' = {r \in ohlcv_data : r.id # id}
    /\ last' = [op |-> "delete", id |-> id, error |-> NoError,
                returned |-> (\E r \in ohlcv_data : r.id = id)]
    /\ UNCHANGED <<ohlcv_data_archive, tick>>

\* Before written with <= : the row at the cutoff is matched too
BeforeOrAt(table, beforeDate) ==
    {r \in table : ~ IsoLess(toISOString(beforeDate), r.timestamp)}

\* the rows matched by WHERE timestamp < ?
Before(table, beforeDate) ==
    {r \in table : IsoLess(r.timestamp, toISOString(beforeDate))}

deleteBeforeDate(beforeDate) ==
    /\ ohlcv_data' = ohlcv_data \ Before(ohlcv_data, beforeDate)
    /\ last' = [op |-> "deleteBeforeDate", beforeDate |-> beforeDate, error |-> NoError,
                returned |-> Cardinality(Before(ohlcv_data, beforeDate))]
    /\ UNCHANGED <<ohlcv_data_archive, tick>>

(***************************************************************************)
(* archiveDataBeforeDate                                                   *)
(***************************************************************************)
\* a row of ohlcv_data_archive: the copied columns and archived_at
ArchiveRow(r, archivedAt) ==
    [id |-> r.id, asset_id |-> r.asset_id, timeframe |-> r.timeframe,
     timestamp |-> r.timestamp, open |-> r.open, high |-> r.high, low |-> r.low,
     close |-> r.close, volume |-> r.volume, source |-> r.source,
     created_at |-> r.created_at, archived_at |-> archivedAt]

\* ArchiveCopy into an archive table that is unique on
\* (asset_id, timeframe, timestamp) as well
ArchiveCopyByKey(archive, rows, archivedAt) ==
    {ArchiveRow(r, archivedAt) :
        r \in {x \in rows : ~ \E a \in archive : a.id = x.id \/ Key(a) = Key(x)}}

\* INSERT OR IGNORE INTO ohlcv_data_archive ... SELECT: the only uniqueness
\* constraint of the archive table is its primary key id, so a selected row
\* is skipped exactly when the archive already holds a row with its id
ArchiveCopy(archive, rows, archivedAt) ==
    {ArchiveRow(r, archivedAt) : r \in {x \in rows : ~ \E a \in archive : a.id = x.id}}

\* ArchiveBody whose DELETE reports the matching rows but leaves them live
ArchiveBodyKeepingLive(live, archive, beforeDate, faultAt) ==
    LET old == Before(live, beforeDate)
        copied == ArchiveCopy(archive, old, tick)
    IN  IF faultAt = 1
        THEN [live |-> live, archive |-> archive, error |-> StorageError,
              archived |-> 0, deleted |-> 0]
        ELSE IF faultAt = 2
        THEN [live |-> live, archive |-> archive \cup copied, error |-> StorageError,
              archived |-> Cardinality(copied), deleted |-> 0]
        ELSE [live |-> live, archive |-> archive \cup copied, error |-> NoError,
              archived |-> Cardinality(copied), deleted |-> Cardinality(old)]

\* the body of the transaction: statement 1 copies, statement 2 deletes
ArchiveBody(live, archive, beforeDate, faultAt) ==
    LET old == Before(live, beforeDate)
        copied == ArchiveCopy(archive, old, tick)
    IN  IF faultAt = 1
        THEN [live |-> live, archive |-> archive, error |-> StorageError,
              archived |-> 0, deleted |-> 0]
        ELSE IF faultAt = 2
        THEN [live |-> live, archive |-> archive \cup copied, error |-> StorageError,
              archived |-> Cardinality(copied), deleted |-> 0]
        ELSE [live |-> live \ old, archive |-> archive \cup copied, error |-> NoError,
              archived |-> Cardinality(copied), deleted |-> Cardinality(old)]

archiveDataBeforeDate(beforeDate, faultAt) ==
    LET out == ArchiveBody(ohlcv_data, ohlcv_data_archive, beforeDate, faultAt)
        db == Transaction([live |-> ohlcv_data, archive |-> ohlcv_data_archive],
                          [live |-> out.live, archive |-> out.archive], out.error)
    IN  /\ ohlcv_data' = db.live
        /\ ohlcv_data_archive' = db.archive
        /\ last' = [op |-> "archiveDataBeforeDate", beforeDate |-> beforeDate,
                    again |-> /\ last.op = "archiveDataBeforeDate"
                              /\ last.error = NoError
                              /\ last.beforeDate = beforeDate,
                    error |-> out.error,
                    returned |-> IF out.error # NoError THEN [archived |-> -1, deleted |-> -1]
                                 ELSE [archived |-> out.archived, deleted |-> out.deleted]]
        /\ UNCHANGED tick

(***************************************************************************)
(* update                                                                  *)
(***************************************************************************)
UpdatePool ==
    { [close |-> Dec(20), source |-> ""] }

\* requests that backfill values: with an empty source, without a source,
\* with a source
BackfillPool ==
    { [close |-> Dec(20), source |-> ""],
      [high |-> Dec(16), volume |-> DecPadded(7)],
      [open |-> Dec(11), source |-> "kraken"] }

getById(table, id) ==
    LET hits == {r \in table : r.id = id}
    IN  IF hits = {} THEN NullRecord ELSE mapRowToOHLCV(CHOOSE r \in hits : TRUE)

\* { ...existing, ...request, id }
Spread(existing, request, id) ==
    [f \in DOMAIN existing \cup DOMAIN request |->
        IF f = "id" THEN id
        ELSE IF f \in DOMAIN request THEN request[f]
        ELSE existing[f]]

\* UPDATE ohlcv_data SET open, high, low, close, volume, source WHERE id = ?
UpdateRow(r, updated) ==
    [r EXCEPT !.open = updated.open, !.high = updated.high, !.low = updated.low,
              !.close = updated.close, !.volume = updated.volume,
              !.source = OrNull(updated.source)]

update(id, request) ==
    LET existing == getById(ohlcv_data, id)
        updated == Spread(existing, request, id)
    IN  /\ ohlcv_data' = IF existing = NullRecord THEN ohlcv_data
                         ELSE {IF r.id = id THEN UpdateRow(r, updated) ELSE r : r \in ohlcv_data}
        /\ last' = [op |-> "update", id |-> id, request |-> request, error |-> NoError,
                    returned |-> IF existing = NullRecord THEN NullRecord ELSE updated]
        /\ UNCHANGED <<ohlcv_data_archive, tick>>

(***************************************************************************)
(* compressDataToTimeframe                                                 *)
(***************************************************************************)
timeframeMinutes ==
    [tf \in {"1m", "5m", "15m", "30m", "1h", "4h", "6h", "12h", "1d", "3d", "1w", "1M"} |->
        CASE tf = "1m" -> 1 [] tf = "5m" -> 5 [] tf = "15m" -> 15 [] tf = "30m" -> 30
          [] tf = "1h" -> 60 [] tf = "4h" -> 240 [] tf = "6h" -> 360 [] tf = "12h" -> 720
          [] tf = "1d" -> 1440 [] tf = "3d" -> 4320 [] tf = "1w" -> 10080
          [] tf = "1M" -> 43200]

\* <<fromTimeframe, toTimeframe>>: a larger target, a smaller one, the same one
TimeframePairs == {<<"1m", "5m">>, <<"5m", "1m">>, <<"1m", "1m">>}

UsageError == "Target timeframe must be larger than source timeframe"

\* Date.prototype.getTime: milliseconds of an instant counted in minutes
getTime(t) == t * 60 * 1000

\* new Date(milliseconds)
DateOfMs(ms) == ms \div (60 * 1000)

parseFloat(d) == d[1]

\* Number.prototype.toString
NumToString(n) == Dec(n)

MaxOf(S) == CHOOSE x \in S : \A y \in S : y <= x
MinOf(S) == CHOOSE x \in S : \A y \in S : x <= y

\* ORDER BY timestamp ASC over a set of rows
RECURSIVE OrderByTimestampAsc(_)
OrderByTimestampAsc(rows) ==
    IF rows = {} THEN <<>>
    ELSE LET first == CHOOSE r \in rows : \A x \in rows : ~ IsoLess(x.timestamp, r.timestamp)
         IN  <<first>> \o OrderByTimestampAsc(rows \ {first})

\* SELECT ... WHERE asset_id = ? AND timeframe = ? AND timestamp < ? ORDER BY timestamp ASC
rawData(table, assetId, fromTimeframe, beforeDate) ==
    OrderByTimestampAsc({r \in Before(table, beforeDate) :
                            r.asset_id = assetId /\ r.timeframe = fromTimeframe})

bucketKey(row, bucketSize) ==
    toISOString(DateOfMs((getTime(NewDate(row.timestamp)) \div bucketSize) * bucketSize))

\* the keys of the Map `buckets`, in insertion order
RECURSIVE bucketKeys(_, _, _)
bucketKeys(data, i, bucketSize) ==
    IF i > Len(data) THEN <<>>
    ELSE LET k == bucketKey(data[i], bucketSize)
         IN  IF \E j \in 1..(i - 1) : bucketKey(data[j], bucketSize) = k
             THEN bucketKeys(data, i + 1, bucketSize)
             ELSE <<k>> \o bucketKeys(data, i + 1, bucketSize)

bucketData(data, k, bucketSize) ==
    SelectSeq(data, LAMBDA row : bucketKey(row, bucketSize) = k)

RECURSIVE SumVolume(_, _)
SumVolume(data, i) ==
    IF i > Len(data) THEN 0 ELSE parseFloat(data[i].volume) + SumVolume(data, i + 1)

\* CompressedRow taking high, low and volume from the first row of the bucket
CompressedRowOfFirst(assetId, fromTimeframe, toTimeframe, bucketTimestamp, data, id, createdAt) ==
    [id |-> id, asset_id |-> assetId, timeframe |-> toTimeframe,
     timestamp |-> bucketTimestamp,
     open |-> data[1].open,
     high |-> NumToString(parseFloat(data[1].high)),
     low |-> NumToString(parseFloat(data[1].low)),
     close |-> data[Len(data)].close,
     volume |-> NumToString(parseFloat(data[1].volume)),
     source |-> "compressed_from_" \o fromTimeframe,
     created_at |-> createdAt]

\* the row compressDataToTimeframe binds for one bucket
CompressedRow(assetId, fromTimeframe, toTimeframe, bucketTimestamp, data, id, createdAt) ==
    [id |-> id, asset_id |-> assetId, timeframe |-> toTimeframe,
     timestamp |-> bucketTimestamp,
     open |-> data[1].open,
     high |-> NumToString(MaxOf({parseFloat(data[i].high) : i \in 1..Len(data)})),
     low |-> NumToString(MinOf({parseFloat(data[i].low) : i \in 1..Len(data)})),
     close |-> data[Len(data)].close,
     volume |-> NumToString(SumVolume(data, 1)),
     source |-> "compressed_from_" \o fromTimeframe,
     created_at |-> createdAt]

\* compressLoop followed by the DELETE of the source rows
RECURSIVE compressLoopDeletingSource(_, _, _, _, _, _, _, _, _)
compressLoopDeletingSource(keys, i, data, bucketSize, assetId, fromTimeframe, toTimeframe, acc, faultAt) ==
    IF i > Len(keys)
    THEN [table |-> {r \in acc.table : ~ (r.asset_id = assetId /\ r.timeframe = fromTimeframe)},
          compressedCount |-> acc.n, error |-> NoError]
    ELSE LET row == CompressedRow(assetId, fromTimeframe, toTimeframe, keys[i],
                                  bucketData(data, keys[i], bucketSize),
                                  tick + acc.n + 1, tick + acc.n + 1)
             res == InsertOrIgnore(acc.table, row, faultAt = i)
         IN  IF res.error # NoError
             THEN [table |-> res.table, compressedCount |-> acc.n, error |-> res.error]
             ELSE compressLoopDeletingSource(keys, i + 1, data, bucketSize, assetId,
                                             fromTimeframe, toTimeframe,
                                             [table |-> res.table, n |-> acc.n + res.changes],
                                             faultAt)

\* the loop over the buckets from bucket i on: n rows inserted so far
RECURSIVE compressLoop(_, _, _, _, _, _, _, _, _)
compressLoop(keys, i, data, bucketSize, assetId, fromTimeframe, toTimeframe, acc, faultAt) ==
    IF i > Len(keys)
    THEN [table |-> acc.table, compressedCount |-> acc.n, error |-> NoError]
    ELSE LET row == CompressedRow(assetId, fromTimeframe, toTimeframe, keys[i],
                                  bucketData(data, keys[i], bucketSize),
                                  tick + acc.n + 1, tick + acc.n + 1)
             res == InsertOrIgnore(acc.table, row, faultAt = i)
         IN  IF res.error # NoError
             THEN [table |-> res.table, compressedCount |-> acc.n, error |-> res.error]
             ELSE compressLoop(keys, i + 1, data, bucketSize, assetId, fromTimeframe,
                               toTimeframe, [table |-> res.table, n |-> acc.n + res.changes],
                               faultAt)

\* NotLarger rejecting only a strictly smaller target
StrictlySmaller(toInterval, fromInterval) == toInterval < fromInterval

\* if (toInterval <= fromInterval) throw
NotLarger(toInterval, fromInterval) == toInterval <= fromInterval

compressDataToTimeframe(assetId, fromTimeframe, toTimeframe, beforeDate, faultAt) ==
    LET fromInterval == timeframeMinutes[fromTimeframe]
        toInterval == timeframeMinutes[toTimeframe]
        bucketSize == toInterval * 60 * 1000
        data == rawData(ohlcv_data, assetId, fromTimeframe, beforeDate)
        keys == bucketKeys(data, 1, bucketSize)
        out == compressLoop(keys, 1, data, bucketSize, assetId, fromTimeframe, toTimeframe,
                            [table |-> ohlcv_data, n |-> 0], faultAt)
        args == [assetId |-> assetId, fromTimeframe |-> fromTimeframe,
                 toTimeframe |-> toTimeframe, beforeDate |-> beforeDate,
                 faultAt |-> faultAt]
        again == /\ last.op = "compressDataToTimeframe"
                 /\ last.error = NoError
                 /\ last.args = [args EXCEPT !.faultAt = 0]
    IN  IF NotLarger(toInterval, fromInterval)
        THEN /\ faultAt = 0
             /\ last' = [op |-> "compressDataToTimeframe", args |-> args, again |-> again,
                         error |-> UsageError, returned |-> -1]
             /\ UNCHANGED <<ohlcv_data, ohlcv_data_archive, tick>>
        ELSE /\ faultAt <= Len(keys)
             /\ ohlcv_data' = Transaction(ohlcv_data, out.table, out.error)
             /\ tick' = IF out.error # NoError THEN tick ELSE tick + out.compressedCount
             /\ last' = [op |-> "compressDataToTimeframe", args |-> args, again |-> again,
                         error |-> out.error,
                         returned |-> IF out.error # NoError THEN -1 ELSE out.compressedCount]
             /\ UNCHANGED ohlcv_data_archive

(***************************************************************************)
(* The reading methods.  A filter or a page option the caller left out is  *)
(* a field the record does not have; a value that can be null is a         *)
(* sequence of length 0 or 1.                                              *)
(***************************************************************************)
Has(record, field) == field \in DOMAIN record

\* SQLite's text comparison timestamp <= ?
IsoLessOrEqual(a, b) == ~ IsoLess(b, a)

Reverse(seq) == [i \in 1..Len(seq) |-> seq[Len(seq) + 1 - i]]

\* the WHERE clause of getTimeSeries: a filter that is absent or falsy adds
\* no condition
Matches(r, filters) ==
    /\ (Has(filters, "assetId") /\ filters.assetId # "") => r.asset_id = filters.assetId
    /\ (Has(filters, "assetIds") /\ filters.assetIds # {}) => r.asset_id \in filters.assetIds
    /\ (Has(filters, "timeframe") /\ filters.timeframe # "") => r.timeframe = filters.timeframe
    /\ (Has(filters, "timeframes") /\ filters.timeframes # {}) => r.timeframe \in filters.timeframes
    /\ Has(filters, "timestampFrom") =>
          IsoLessOrEqual(toISOString(filters.timestampFrom), r.timestamp)
    /\ Has(filters, "timestampTo") =>
          IsoLessOrEqual(r.timestamp, toISOString(filters.timestampTo))
    /\ (Has(filters, "source") /\ filters.source # "") => r.source = filters.source

\* LIMIT ? OFFSET ? over an ordered result (a negative limit is no limit)
LimitOffset(seq, limit, offset) ==
    SubSeq(seq, offset + 1, IF limit < 0 \/ offset + limit > Len(seq) THEN Len(seq)
                            ELSE offset + limit)

\* the statement getTimeSeries builds: LIMIT is added for a truthy limit and
\* OFFSET for a truthy offset; OFFSET without LIMIT is not SQL, so prepare
\* throws
TimeSeries(table, filters, options) ==
    LET asc == OrderByTimestampAsc({r \in table : Matches(r, filters)})
        orderBy == IF Has(options, "orderBy") THEN options.orderBy ELSE "timestamp_desc"
        ordered == IF orderBy = "timestamp_asc" THEN asc ELSE Reverse(asc)
        hasLimit == Has(options, "limit") /\ options.limit # 0
        hasOffset == Has(options, "offset") /\ options.offset # 0
        page == LimitOffset(ordered, IF hasLimit THEN options.limit ELSE -1,
                            IF hasOffset THEN options.offset ELSE 0)
    IN  IF hasOffset /\ ~ hasLimit
        THEN [error |-> StorageError, rows |-> <<>>]
        ELSE [error |-> NoError, rows |-> [i \in 1..Len(page) |-> mapRowToOHLCV(page[i])]]

getTimeSeries(filters, options) ==
    /\ last' = [op |-> "getTimeSeries", filters |-> filters, options |-> options,
                error |-> TimeSeries(ohlcv_data, filters, options).error,
                returned |-> TimeSeries(ohlcv_data, filters, options).rows]
    /\ UNCHANGED <<ohlcv_data, ohlcv_data_archive, tick>>

Latest(table, assetId, timeframe) ==
    LET results == TimeSeries(table, [assetId |-> assetId, timeframe |-> timeframe],
                              [limit |-> 1, orderBy |-> "timestamp_desc"]).rows
    IN  IF Len(results) > 0 THEN results[1] ELSE NullRecord

getLatest(assetId, timeframe) ==
    /\ last' = [op |-> "getLatest", assetId |-> assetId, timeframe |-> timeframe,
                error |-> NoError, returned |-> Latest(ohlcv_data, assetId, timeframe)]
    /\ UNCHANGED <<ohlcv_data, ohlcv_data_archive, tick>>

Earliest(table, assetId, timeframe) ==
    LET results == TimeSeries(table, [assetId |-> assetId, timeframe |-> timeframe],
                              [limit |-> 1, orderBy |-> "timestamp_asc"]).rows
    IN  IF Len(results) > 0 THEN results[1] ELSE NullRecord

getEarliest(assetId, timeframe) ==
    /\ last' = [op |-> "getEarliest", assetId |-> assetId, timeframe |-> timeframe,
                error |-> NoError, returned |-> Earliest(ohlcv_data, assetId, timeframe)]
    /\ UNCHANGED <<ohlcv_data, ohlcv_data_archive, tick>>

\* MIN(timestamp) / MAX(timestamp) over text
MinTimestamp(rows) == CHOOSE t \in {r.timestamp : r \in rows} :
                          \A r \in rows : IsoLessOrEqual(t, r.timestamp)
MaxTimestamp(rows) == CHOOSE t \in {r.timestamp : r \in rows} :
                          \A r \in rows : IsoLessOrEqual(r.timestamp, t)

\* DateRange reporting the newest timestamp for both bounds
DateRangeOfNewest(table, assetId, timeframe) ==
    LET rows == {r \in table : r.asset_id = assetId /\ r.timeframe = timeframe}
    IN  [earliest |-> IF rows = {} THEN <<>> ELSE <<NewDate(MaxTimestamp(rows))>>,
         latest |-> IF rows = {} THEN <<>> ELSE <<NewDate(MaxTimestamp(rows))>>,
         count |-> Cardinality(rows)]

DateRange(table, assetId, timeframe) ==
    LET rows == {r \in table : r.asset_id = assetId /\ r.timeframe = timeframe}
    IN  [earliest |-> IF rows = {} THEN <<>> ELSE <<NewDate(MinTimestamp(rows))>>,
         latest |-> IF rows = {} THEN <<>> ELSE <<NewDate(MaxTimestamp(rows))>>,
         count |-> Cardinality(rows)]

getDateRange(assetId, timeframe) ==
    /\ last' = [op |-> "getDateRange", assetId |-> assetId, timeframe |-> timeframe,
                error |-> NoError, returned |-> DateRange(ohlcv_data, assetId, timeframe)]
    /\ UNCHANGED <<ohlcv_data, ohlcv_data_archive, tick>>

\* IsGap taking a candle exactly one interval later for a gap
IsGapOrAdjacent(next, expectedNext) == getTime(next) >= getTime(expectedNext)

\* if (next.getTime() > expectedNext.getTime())
IsGap(next, expectedNext) == getTime(next) > getTime(expectedNext)

\* the loop of findDataGaps from the pair (rows[i], rows[i + 1]) on
RECURSIVE GapsFrom(_, _, _)
GapsFrom(rows, i, expectedInterval) ==
    IF i > Len(rows) - 1 THEN <<>>
    ELSE LET current == NewDate(rows[i].timestamp)
             next == NewDate(rows[i + 1].timestamp)
             expectedNext == DateOfMs(getTime(current) + expectedInterval * 60 * 1000)
         IN  (IF IsGap(next, expectedNext)
              THEN <<[from |-> expectedNext,
                      to |-> DateOfMs(getTime(next) - expectedInterval * 60 * 1000)]>>
              ELSE <<>>) \o GapsFrom(rows, i + 1, expectedInterval)

DataGaps(table, assetId, timeframe, expectedInterval) ==
    LET rows == OrderByTimestampAsc({r \in table : r.asset_id = assetId /\ r.timeframe = timeframe})
    IN  IF Len(rows) < 2 THEN <<>> ELSE GapsFrom(rows, 1, expectedInterval)

findDataGaps(assetId, timeframe, expectedInterval) ==
    /\ last' = [op |-> "findDataGaps", assetId |-> assetId, timeframe |-> timeframe,
                expectedInterval |-> expectedInterval, error |-> NoError,
                returned |-> DataGaps(ohlcv_data, assetId, timeframe, expectedInterval)]
    /\ UNCHANGED <<ohlcv_data, ohlcv_data_archive, tick>>

\* the rows of a key inside the optional window of getStatistics
InWindow(table, assetId, timeframe, window) ==
    {r \in table :
        /\ r.asset_id = assetId /\ r.timeframe = timeframe
        /\ Has(window, "from") => IsoLessOrEqual(toISOString(window.from), r.timestamp)
        /\ Has(window, "to") => IsoLessOrEqual(r.timestamp, toISOString(window.to))}

\* SUM(CAST(volume AS REAL))
RECURSIVE SumCast(_)
SumCast(rows) ==
    IF rows = {} THEN 0
    ELSE LET r == CHOOSE x \in rows : TRUE
         IN  parseFloat(r.volume) + SumCast(rows \ {r})

\* getStatistics: the aggregates run over the window, the statements for the
\* first open and the last close carry no timestamp condition; avgVolume is
\* the fraction <<sum, count>>
Statistics(table, assetId, timeframe, window) ==
    LET rows == InWindow(table, assetId, timeframe, window)
        all == {r \in table : r.asset_id = assetId /\ r.timeframe = timeframe}
        firstResult == {r \in all : r.timestamp = MinTimestamp(all)}
        lastResult == {r \in all : r.timestamp = MaxTimestamp(all)}
    IN  [count |-> Cardinality(rows),
         avgVolume |-> IF rows = {} \/ SumCast(rows) = 0 THEN <<0, 1>>
                       ELSE <<SumCast(rows), Cardinality(rows)>>,
         maxHigh |-> IF rows = {} THEN 0 ELSE MaxOf({parseFloat(r.high) : r \in rows}),
         minLow |-> IF rows = {} THEN 0 ELSE MinOf({parseFloat(r.low) : r \in rows}),
         firstOpen |-> IF all = {} THEN <<>>
                       ELSE <<parseFloat((CHOOSE r \in firstResult : TRUE).open)>>,
         lastClose |-> IF all = {} THEN <<>>
                       ELSE <<parseFloat((CHOOSE r \in lastResult : TRUE).close)>>]

getStatistics(assetId, timeframe, window) ==
    /\ last' = [op |-> "getStatistics", assetId |-> assetId, timeframe |-> timeframe,
                window |-> window, error |-> NoError,
                returned |-> Statistics(ohlcv_data, assetId, timeframe, window)]
    /\ UNCHANGED <<ohlcv_data, ohlcv_data_archive, tick>>

(***************************************************************************)
(* JavaScript numbers of the statistics engine: a finite number is the     *)
(* fraction <<n, d>> in lowest terms with d > 0; the non-finite numbers    *)
(* are the fractions with d = 0.  Rounding and overflow of doubles are not *)
(* represented.  A value s * sqrt(q) that comes out of Math.sqrt is the    *)
(* triple <<s, n, d>> with s the sign and q = n / d.                       *)
(***************************************************************************)
NaN == <<0, 0>>
Infinity == <<1, 0>>
NegInfinity == <<-1, 0>>

Abs(i) == IF i < 0 THEN -i ELSE i

Sign(i) == IF i < 0 THEN -1 ELSE IF i > 0 THEN 1 ELSE 0

RECURSIVE GCD(_, _)
GCD(a, b) == IF b = 0 THEN a ELSE GCD(b, a % b)

\* the number n / d for integers n and d: IEEE 754 division when d = 0
Frac(n, d) ==
    IF d = 0 THEN <<Sign(n), 0>>
    ELSE LET g == GCD(Abs(n), Abs(d))
         IN  <<(Sign(d) * n) \div g, Abs(d) \div g>>

Num(i) == <<i, 1>>

\* the value of an array element that does not exist
UndefinedNumber == <<>>

isFinite(x) == Len(x) > 0 /\ x[Len(x)] # 0

Neg(x) == <<-x[1], x[2]>>

\* a + b
Plus(a, b) ==
    IF a = NaN \/ b = NaN THEN NaN
    ELSE IF a[2] = 0 /\ b[2] = 0 THEN (IF a = b THEN a ELSE NaN)
    ELSE IF a[2] = 0 THEN a
    ELSE IF b[2] = 0 THEN b
    ELSE LET g == GCD(a[2], b[2])
         IN  Frac(a[1] * (b[2] \div g) + b[1] * (a[2] \div g), (a[2] \div g) * b[2])

\* a - b
Minus(a, b) == Plus(a, Neg(b))

\* a * b
Times(a, b) ==
    IF a = NaN \/ b = NaN THEN NaN
    ELSE IF a[2] = 0 \/ b[2] = 0 THEN <<Sign(a[1]) * Sign(b[1]), 0>>
    ELSE Frac(a[1] * b[1], a[2] * b[2])

\* a / b
Over(a, b) ==
    IF a = NaN \/ b = NaN THEN NaN
    ELSE IF a[2] = 0 /\ b[2] = 0 THEN NaN
    ELSE IF a[2] = 0 THEN <<a[1] * (IF b[1] < 0 THEN -1 ELSE 1), 0>>
    ELSE IF b[2] = 0 THEN Num(0)
    ELSE Frac(a[1] * b[2], a[2] * b[1])

\* a < b (false when either is NaN)
LessThan(a, b) ==
    /\ a # NaN /\ b # NaN
    /\ IF a[2] = 0 \/ b[2] = 0
       THEN (IF a[2] = 0 THEN a[1] ELSE 0) < (IF b[2] = 0 THEN b[1] ELSE 0)
            \/ (a = NegInfinity /\ b # NegInfinity) \/ (b = Infinity /\ a # Infinity)
       ELSE a[1] * b[2] < b[1] * a[2]

\* a === b on numbers (NaN equals nothing)
StrictEquals(a, b) == a # NaN /\ b # NaN /\ a = b

\* sign * Math.sqrt(q) for a number q
Surd(sign, q) ==
    IF q = NaN \/ LessThan(q, Num(0)) THEN <<0, 0, 0>>
    ELSE IF q[2] = 0 THEN <<sign, 1, 0>>
    ELSE IF sign = 0 \/ q[1] = 0 THEN <<0, 0, 1>>
    ELSE <<sign, q[1], q[2]>>

\* Math.ceil of a finite number, as an integer
Ceil(x) == -((-x[1]) \div x[2])

(***************************************************************************)
(* TimeSeriesStatisticsEngine.  Arrays are sequences; the indices the      *)
(* engine reports count from 0 as in the source.                           *)
(***************************************************************************)
TooFewPrices == "At least two price points are required to calculate returns"
ZeroPrevious == "Previous price cannot be zero when calculating returns"
NoValues == "At least one value is required to calculate drawdown"

\* Returns dividing without the test for a zero previous price
ReturnsUnchecked(prices) ==
    IF Len(prices) < 2
    THEN [error |-> TooFewPrices, value |-> <<>>]
    ELSE [error |-> NoError,
          value |-> [i \in 1..(Len(prices) - 1) |->
                        Over(Minus(prices[i + 1], prices[i]), prices[i])]]

Returns(prices) ==
    IF Len(prices) < 2
    THEN [error |-> TooFewPrices, value |-> <<>>]
    ELSE IF \E i \in 1..(Len(prices) - 1) : StrictEquals(prices[i], Num(0))
    THEN [error |-> ZeroPrevious, value |-> <<>>]
    ELSE [error |-> NoError,
          value |-> [i \in 1..(Len(prices) - 1) |->
                        Over(Minus(prices[i + 1], prices[i]), prices[i])]]

calculateReturns(prices) ==
    /\ LET result == Returns(prices)
       IN  last' = [op |-> "calculateReturns", prices |-> prices,
                    error |-> result.error, returned |-> result.value]
    /\ UNCHANGED <<ohlcv_data, ohlcv_data_archive, tick>>

\* DrawdownStep that moves the peak only after the drawdown is taken
DrawdownStepLate(st, value, index) ==
    LET drawdown == Over(Minus(value, st.peak), st.peak)
        deeper == LessThan(drawdown, st.maxDrawdown)
        risen == LessThan(st.peak, value)
    IN  [peak |-> IF risen THEN value ELSE st.peak,
         peakIndex |-> IF risen THEN index ELSE st.peakIndex,
         drawdowns |-> Append(st.drawdowns, drawdown),
         maxDrawdown |-> IF deeper THEN drawdown ELSE st.maxDrawdown,
         maxDrawdownPeriod |-> IF deeper THEN [start |-> st.peakIndex, end |-> index]
                               ELSE st.maxDrawdownPeriod]

\* the body of values.forEach in calculateDrawdown
DrawdownStep(st, value, index) ==
    LET risen == LessThan(st.peak, value)
        peak == IF risen THEN value ELSE st.peak
        peakIndex == IF risen THEN index ELSE st.peakIndex
        drawdown == Over(Minus(value, peak), peak)
        deeper == LessThan(drawdown, st.maxDrawdown)
    IN  [peak |-> peak, peakIndex |-> peakIndex,
         drawdowns |-> Append(st.drawdowns, drawdown),
         maxDrawdown |-> IF deeper THEN drawdown ELSE st.maxDrawdown,
         maxDrawdownPeriod |-> IF deeper THEN [start |-> peakIndex, end |-> index]
                               ELSE st.maxDrawdownPeriod]

RECURSIVE DrawdownLoop(_, _, _)
DrawdownLoop(values, i, st) ==
    IF i > Len(values) THEN st
    ELSE DrawdownLoop(values, i + 1, DrawdownStep(st, values[i], i - 1))

\* array.reduce((sum, value) => sum + value, 0)
RECURSIVE SumOf(_, _)
SumOf(values, i) ==
    IF i > Len(values) THEN Num(0) ELSE Plus(values[i], SumOf(values, i + 1))

Drawdown(values) ==
    IF Len(values) = 0
    THEN [error |-> NoValues, value |-> <<>>]
    ELSE LET st == DrawdownLoop(values, 1,
                       [peak |-> values[1], peakIndex |-> 0, drawdowns |-> <<>>,
                        maxDrawdown |-> Num(0),
                        maxDrawdownPeriod |-> [start |-> 0, end |-> 0]])
         IN  [error |-> NoError,
              value |-> [drawdowns |-> st.drawdowns,
                         maxDrawdown |-> st.maxDrawdown,
                         maxDrawdownPeriod |-> st.maxDrawdownPeriod,
                         averageDrawdown |-> Over(SumOf(st.drawdowns, 1),
                                                  Num(Len(st.drawdowns)))]]

calculateDrawdown(values) ==
    /\ LET result == Drawdown(values)
       IN  last' = [op |-> "calculateDrawdown", values |-> values,
                    error |-> result.error, returned |-> result.value]
    /\ UNCHANGED <<ohlcv_data, ohlcv_data_archive, tick>>

annualizationFactor == 252

TooFewReturns == "At least two return values are required to calculate volatility"
LengthMismatch == "Input series must have same length"
TooFewObservations == "At least two observations are required to calculate correlation"
ZeroVariance == "Variance must be greater than zero to calculate correlation"
TooFewReturnsSharpe == "At least two return values are required to calculate Sharpe ratio"
ZeroReturnVariance == "Return variance must be greater than zero to calculate Sharpe ratio"
NoReturns == "At least one return value is required to calculate VaR"
BadConfidence == "confidence must be between 0 and 1"
NoSeries == "At least one series is required to calculate correlation matrix"
TooFewObservationsMatrix == "At least two observations are required to calculate correlation matrix"
UnequalLengths == "All series must have the same length"

RECURSIVE SumOfSquaredDiffs(_, _, _)
SumOfSquaredDiffs(values, mean, i) ==
    IF i > Len(values) THEN Num(0)
    ELSE Plus(Times(Minus(values[i], mean), Minus(values[i], mean)),
              SumOfSquaredDiffs(values, mean, i + 1))

calculateSampleStatistics(values) ==
    LET n == Len(values)
        mean == Over(SumOf(values, 1), Num(n))
    IN  [mean |-> mean,
         variance |-> Over(SumOfSquaredDiffs(values, mean, 1), Num(n - 1))]

Volatility(returns, annualize) ==
    IF Len(returns) < 2
    THEN [error |-> TooFewReturns, value |-> UndefinedNumber]
    ELSE LET variance == calculateSampleStatistics(returns).variance
         IN  [error |-> NoError,
              value |-> IF annualize THEN Surd(1, Times(variance, Num(annualizationFactor)))
                        ELSE Surd(1, variance)]

calculateVolatility(returns, annualize) ==
    /\ LET result == Volatility(returns, annualize)
       IN  last' = [op |-> "calculateVolatility", returns |-> returns,
                    annualize |-> annualize,
                    error |-> result.error, returned |-> result.value]
    /\ UNCHANGED <<ohlcv_data, ohlcv_data_archive, tick>>

RECURSIVE SumOfProducts(_, _, _)
SumOfProducts(xs, ys, i) ==
    IF i > Len(xs) THEN Num(0)
    ELSE Plus(Times(xs[i], ys[i]), SumOfProducts(xs, ys, i + 1))

Correlation(series1, series2) ==
    IF Len(series1) # Len(series2)
    THEN [error |-> LengthMismatch, value |-> UndefinedNumber]
    ELSE IF Len(series1) < 2
    THEN [error |-> TooFewObservations, value |-> UndefinedNumber]
    ELSE LET n == Num(Len(series1))
             sum1 == SumOf(series1, 1)
             sum2 == SumOf(series2, 1)
             sumProd == SumOfProducts(series1, series2, 1)
             sumSq1 == SumOfProducts(series1, series1, 1)
             sumSq2 == SumOfProducts(series2, series2, 1)
             numerator == Minus(Times(n, sumProd), Times(sum1, sum2))
             radicand == Times(Minus(Times(n, sumSq1), Times(sum1, sum1)),
                               Minus(Times(n, sumSq2), Times(sum2, sum2)))
         IN  IF StrictEquals(radicand, Num(0))
             THEN [error |-> ZeroVariance, value |-> UndefinedNumber]
             ELSE [error |-> NoError,
                   value |-> Surd(Sign(numerator[1]),
                                  Over(Times(numerator, numerator), radicand))]

calculateCorrelation(series1, series2) ==
    /\ LET result == Correlation(series1, series2)
       IN  last' = [op |-> "calculateCorrelation", series1 |-> series1,
                    series2 |-> series2,
                    error |-> result.error, returned |-> result.value]
    /\ UNCHANGED <<ohlcv_data, ohlcv_data_archive, tick>>

SharpeRatio(returns, riskFreeRate) ==
    IF Len(returns) < 2
    THEN [error |-> TooFewReturnsSharpe, value |-> UndefinedNumber]
    ELSE LET excessReturns == [i \in 1..Len(returns) |-> Minus(returns[i], riskFreeRate)]
             stats == calculateSampleStatistics(excessReturns)
         IN  IF StrictEquals(stats.variance, Num(0))
             THEN [error |-> ZeroReturnVariance, value |-> UndefinedNumber]
             ELSE [error |-> NoError,
                   value |-> Surd(Sign(stats.mean[1]),
                                  Over(Times(stats.mean, stats.mean), stats.variance))]

calculateSharpeRatio(returns, riskFreeRate) ==
    /\ LET result == SharpeRatio(returns, riskFreeRate)
       IN  last' = [op |-> "calculateSharpeRatio", returns |-> returns,
                    riskFreeRate |-> riskFreeRate,
                    error |-> result.error, returned |-> result.value]
    /\ UNCHANGED <<ohlcv_data, ohlcv_data_archive, tick>>

\* inserts x into an ascending sequence, after the elements not larger than it
RECURSIVE InsertAscending(_, _)
InsertAscending(sorted, x) ==
    IF sorted = <<>> THEN <<x>>
    ELSE IF LessThan(x, Head(sorted)) THEN <<x>> \o sorted
    ELSE <<Head(sorted)>> \o InsertAscending(Tail(sorted), x)

\* array.sort((a, b) => a - b) on finite numbers
RECURSIVE SortAscending(_)
SortAscending(values) ==
    IF values = <<>> THEN <<>>
    ELSE InsertAscending(SortAscending(SubSeq(values, 1, Len(values) - 1)),
                         values[Len(values)])

\* Math.max(0, Math.ceil((1 - confidence) * n) - 1); NaN stays NaN
Position(confidence, n) ==
    LET x == Times(Minus(Num(1), confidence), Num(n))
    IN  IF ~isFinite(x) THEN x
        ELSE IF Ceil(x) - 1 > 0 THEN Num(Ceil(x) - 1) ELSE Num(0)

\* array[position] for a sequence indexed from 0
ElementAt(array, position) ==
    IF isFinite(position) /\ position[2] = 1
       /\ position[1] >= 0 /\ position[1] < Len(array)
    THEN array[position[1] + 1]
    ELSE UndefinedNumber

\* returns: the caller's array as it is after the call
HistoricalVaR(returns, confidence) ==
    IF Len(returns) = 0
    THEN [error |-> NoReturns, value |-> UndefinedNumber, returns |-> returns]
    ELSE IF LessThan(confidence, Num(0)) \/ StrictEquals(confidence, Num(0))
            \/ LessThan(Num(1), confidence) \/ StrictEquals(confidence, Num(1))
    THEN [error |-> BadConfidence, value |-> UndefinedNumber, returns |-> returns]
    ELSE LET sorted == SortAscending(returns)
         IN  [error |-> NoError,
              value |-> ElementAt(sorted, Position(confidence, Len(sorted))),
              returns |-> returns]

calculateHistoricalVaR(returns, confidence) ==
    /\ LET result == HistoricalVaR(returns, confidence)
       IN  last' = [op |-> "calculateHistoricalVaR", input |-> returns,
                    confidence |-> confidence,
                    error |-> result.error, returned |-> result.value,
                    returns |-> result.returns]
    /\ UNCHANGED <<ohlcv_data, ohlcv_data_archive, tick>>

\* MatrixEntry leaving the lower triangle at zero
MatrixEntryUpperOnly(upper, i, j) ==
    IF i = j THEN Num(1)
    ELSE IF j < i THEN Num(0)
    ELSE upper[i][j].value

\* matrix[i][j] as the nested loops assign it; upper holds the outcomes of
\* the calls of calculateCorrelation, made for i < j only
RECURSIVE MatrixEntry(_, _, _)
MatrixEntry(upper, i, j) ==
    IF i = j THEN Num(1)
    ELSE IF j < i THEN MatrixEntry(upper, j, i)
    ELSE upper[i][j].value

CorrelationMatrix(series) ==
    IF Len(series) = 0
    THEN [error |-> NoSeries, value |-> <<>>]
    ELSE IF Len(series[1]) < 2
    THEN [error |-> TooFewObservationsMatrix, value |-> <<>>]
    ELSE IF \E k \in 1..Len(series) : Len(series[k]) # Len(series[1])
    THEN [error |-> UnequalLengths, value |-> <<>>]
    ELSE LET upper == [i \in 1..Len(series) |->
                          [j \in 1..Len(series) |->
                              IF i < j THEN Correlation(series[i], series[j])
                              ELSE [error |-> NoError, value |-> UndefinedNumber]]]
         IN  IF \E i, j \in 1..Len(series) : upper[i][j].error # NoError
             THEN [error |-> ZeroVariance, value |-> <<>>]
             ELSE [error |-> NoError,
                   value |-> [i \in 1..Len(series) |->
                                 [j \in 1..Len(series) |-> MatrixEntry(upper, i, j)]]]

calculateCorrelationMatrix(series) ==
    /\ LET result == CorrelationMatrix(series)
       IN  last' = [op |-> "calculateCorrelationMatrix", series |-> series,
                    error |-> result.error, returned |-> result.value]
    /\ UNCHANGED <<ohlcv_data, ohlcv_data_archive, tick>>

(***************************************************************************)
(* Concurrent writers.  A caller is idle, between the INSERT of create     *)
(* that changed no row and the SELECT that follows it ("ignored"), or has  *)
(* its outcome ("done").  The transaction of bulkCreate is one step.       *)
(***************************************************************************)
Callers == 1..MaxCallers

\* create up to stmt.run and, when a row was inserted, to its return
createRun(c, request) ==
    /\ callers[c].pc = "idle"
    /\ LET id == tick + 1
           res == InsertOrIgnore(ohlcv_data, RowOf(request, id, tick + 1), FALSE)
       IN  /\ ohlcv_data' = res.table
           /\ tick' = tick + res.changes
           /\ callers' = [callers EXCEPT ![c] =
                  IF res.error # NoError
                  THEN [pc |-> "done", op |-> "create", request |-> request,
                        error |-> res.error, returned |-> NullRecord]
                  ELSE IF res.changes = 0
                  THEN [pc |-> "ignored", op |-> "create", request |-> request]
                  ELSE [pc |-> "done", op |-> "create", request |-> request,
                        error |-> NoError, returned |-> ObjectOf(request, id, tick + 1)]]
    /\ UNCHANGED <<ohlcv_data_archive, last, sync>>

\* createRefetch returning the object the caller built for its own request
createRefetchOwn(c) ==
    /\ callers[c].pc = "ignored"
    /\ callers' = [callers EXCEPT ![c] =
           [pc |-> "done", op |-> "create", request |-> callers[c].request,
            error |-> NoError,
            returned |-> ObjectOf(callers[c].request, tick + 1, tick + 1)]]
    /\ UNCHANGED <<ohlcv_data, ohlcv_data_archive, tick, last, sync>>

\* create from getByAssetTimeframeTimestamp on, after changes === 0
createRefetch(c) ==
    /\ callers[c].pc = "ignored"
    /\ LET request == callers[c].request
           existing == getByAssetTimeframeTimestamp(ohlcv_data, request.assetId,
                                                    request.timeframe, request.timestamp)
       IN  callers' = [callers EXCEPT ![c] =
               [pc |-> "done", op |-> "create", request |-> request,
                error |-> IF existing = NullRecord THEN RetrieveError ELSE NoError,
                returned |-> existing]]
    /\ UNCHANGED <<ohlcv_data, ohlcv_data_archive, tick, last, sync>>

\* bulkCreate of one caller: the whole transaction
bulkCreateBy(c, requests) ==
    /\ callers[c].pc = "idle"
    /\ LET out == insertMany(requests, 1, ohlcv_data, 0)
       IN  /\ ohlcv_data' = Transaction(ohlcv_data, out.table, out.error)
           /\ tick' = IF out.error # NoError THEN tick ELSE tick + out.insertedCount
           /\ callers' = [callers EXCEPT ![c] =
                  [pc |-> "done", op |-> "bulkCreate", requests |-> requests,
                   error |-> out.error,
                   returned |-> IF out.error # NoError THEN -1 ELSE out.insertedCount]]
    /\ UNCHANGED <<ohlcv_data_archive, last, sync>>

(***************************************************************************)
(* OHLCVIngestionService.syncOHLCV.  The call starts one task per symbol;  *)
(* each task runs up to its await of fetcher.fetchOHLCV in the order of    *)
(* the symbols, and goes on when its fetch settles, in any order.  A       *)
(* task's continuation runs without interruption.                          *)
(***************************************************************************)
\* the rows of the assets table: symbol -> id
registered == [symbol \in {"BTC/USDT", "ETH/USDT"} |->
                  IF symbol = "BTC/USDT" THEN "BTC" ELSE "ETH"]

\* AssetRepository.getBySymbol: the asset, or nothing
getBySymbol(symbol) ==
    IF symbol \in DOMAIN registered THEN <<[id |-> registered[symbol], symbol |-> symbol]>>
    ELSE <<>>

AssetNotFound(symbol) == "Asset not found for symbol " \o symbol
ExchangeError == "ExchangeError"

\* a candle as the fetcher returns it
Candle(symbol, t, p) ==
    [timestamp |-> t, open |-> p.open, high |-> p.high, low |-> p.low,
     close |-> p.close, volume |-> p.volume, symbol |-> symbol,
     provider |-> "binance", timeframe |-> "1h"]

\* candles.map(...): the requests handed to bulkCreate
Normalized(candles, assetId, timeframe) ==
    [k \in 1..Len(candles) |->
        [assetId |-> assetId, timeframe |-> timeframe,
         timestamp |-> candles[k].timestamp,
         open |-> candles[k].open, high |-> candles[k].high, low |-> candles[k].low,
         close |-> candles[k].close, volume |-> candles[k].volume,
         source |-> candles[k].provider]]

\* one task up to its first await
StartTask(request, symbol) ==
    LET asset == getBySymbol(symbol)
        latest == Latest(ohlcv_data, asset[1].id, request.timeframe)
    IN  IF asset = <<>>
        THEN [state |-> "skipped", symbol |-> symbol, assetId |-> Undefined, since |-> <<>>]
        ELSE [state |-> "awaiting", symbol |-> symbol, assetId |-> asset[1].id,
              since |-> IF request.autoSinceLatest /\ latest # NullRecord
                        THEN <<latest.timestamp>> ELSE <<>>]

\* the summaries pushed before the first fetch settles
RECURSIVE NotFoundSummaries(_, _)
NotFoundSummaries(tasks, i) ==
    IF i > Len(tasks) THEN <<>>
    ELSE (IF tasks[i].state = "skipped"
          THEN <<[symbol |-> tasks[i].symbol, assetId |-> Undefined, fetched |-> 0,
                  inserted |-> 0, error |-> AssetNotFound(tasks[i].symbol)]>>
          ELSE <<>>) \o NotFoundSummaries(tasks, i + 1)

\* the calls of fetcher.fetchOHLCV, in the order they are made
RECURSIVE FetchCalls(_, _)
FetchCalls(tasks, i) ==
    IF i > Len(tasks) THEN <<>>
    ELSE (IF tasks[i].state = "awaiting"
          THEN <<[symbol |-> tasks[i].symbol, since |-> tasks[i].since]>>
          ELSE <<>>) \o FetchCalls(tasks, i + 1)

\* syncOHLCV up to await Promise.all(tasks); countBefore is the number of
\* stored candles when the call begins.  One call is followed to its return.
syncOHLCV(request) ==
    /\ sync.phase = "idle"
    /\ LET tasks == [i \in 1..Len(request.symbols) |-> StartTask(request, request.symbols[i])]
       IN  sync' = [phase |-> "running", request |-> request, tasks |-> tasks,
                    calls |-> FetchCalls(tasks, 1),
                    summaries |-> NotFoundSummaries(tasks, 1),
                    totalInserted |-> 0,
                    countBefore |-> Cardinality(ohlcv_data)]
    /\ UNCHANGED <<ohlcv_data, ohlcv_data_archive, tick, last, callers>>

\* totalInserted overwritten by the task's count
TotalOfLast(totalInserted, inserted) == inserted

\* totalInserted += inserted
TotalAfter(totalInserted, inserted) == totalInserted + inserted

\* the task of symbol i after its fetch resolved with candles
fetchResolved(i, candles) ==
    /\ sync.phase = "running"
    /\ i \in 1..Len(sync.tasks)
    /\ sync.tasks[i].state = "awaiting"
    /\ LET task == sync.tasks[i]
           normalized == Normalized(candles, task.assetId, sync.request.timeframe)
           out == IF Len(normalized) > 0 THEN insertMany(normalized, 1, ohlcv_data, 0)
                  ELSE [table |-> ohlcv_data, insertedCount |-> 0, error |-> NoError]
           settled == [state |-> "resolved", symbol |-> task.symbol,
                       assetId |-> task.assetId, since |-> task.since,
                       candles |-> candles]
       IN  IF out.error # NoError
           THEN /\ ohlcv_data' = Transaction(ohlcv_data, out.table, out.error)
                /\ tick' = tick
                /\ sync' = [sync EXCEPT
                       !.tasks[i] = settled,
                       !.summaries = Append(@, [symbol |-> task.symbol,
                                                assetId |-> task.assetId, fetched |-> 0,
                                                inserted |-> 0, error |-> out.error])]
           ELSE /\ ohlcv_data' = out.table
                /\ tick' = tick + out.insertedCount
                /\ sync' = [sync EXCEPT
                       !.tasks[i] = settled,
                       !.totalInserted = TotalAfter(@, out.insertedCount),
                       !.summaries = Append(@, [symbol |-> task.symbol,
                                                assetId |-> task.assetId,
                                                fetched |-> Len(candles),
                                                inserted |-> out.insertedCount,
                                                error |-> Undefined])]
    /\ UNCHANGED <<ohlcv_data_archive, last, callers>>

\* the task of symbol i after its fetch was rejected
fetchRejected(i) ==
    /\ sync.phase = "running"
    /\ i \in 1..Len(sync.tasks)
    /\ sync.tasks[i].state = "awaiting"
    /\ sync' = [sync EXCEPT
           !.tasks[i] = [@ EXCEPT !.state = "rejected"],
           !.summaries = Append(@, [symbol |-> sync.tasks[i].symbol,
                                    assetId |-> sync.tasks[i].assetId, fetched |-> 0,
                                    inserted |-> 0, error |-> ExchangeError])]
    /\ UNCHANGED <<ohlcv_data, ohlcv_data_archive, tick, last, callers>>

\* Promise.all(tasks) fulfilled: syncOHLCV returns totalInserted and summaries
syncReturn ==
    /\ sync.phase = "running"
    /\ \A i \in 1..Len(sync.tasks) : sync.tasks[i].state # "awaiting"
    /\ sync' = [sync EXCEPT !.phase = "returned"]
    /\ UNCHANGED <<ohlcv_data, ohlcv_data_archive, tick, last, callers>>

\* a candle stored before the call, by the repository's create
seed(request) ==
    /\ sync.phase = "idle"
    /\ create(request)
    /\ UNCHANGED <<callers, sync>>

Init ==
    /\ ohlcv_data = {}
    /\ ohlcv_data_archive = {}
    /\ tick = 0
    /\ last = [op |-> "init", error |-> NoError]
    /\ callers = [c \in Callers |-> [pc |-> "idle"]]
    /\ sync = [phase |-> "idle"]

(***************************************************************************)
(* Specifications.  Identifiers are handed out up to MaxTick.              *)
(*   Spec         every writing method of the repository                   *)
(*   SpecWrite    create and bulkCreate over the larger pools              *)
(*   SpecArchive  create, archiveDataBeforeDate and deleteBeforeDate       *)
(*   SpecCompress create and compressDataToTimeframe, up to MaxCandles rows*)
(*   SpecRead     create and the reading methods, up to MaxStored rows     *)
(*   SpecUpdate   create, update and delete                                *)
(***************************************************************************)
CorePool ==
    { Request("BTC", "1m", 0, Profile1, "binance"),
      Request("BTC", "1m", 0, Profile2, "kraken"),
      Request("BTC", "5m", 0, Profile2, "binance") }

CoreBatches ==
    { <<Request("BTC", "1m", 5, Profile2, "binance"), Request("BTC", "1m", 0, Profile2, "kraken")>>,
      <<Request("BTC", "1m", 0, Profile1, "binance"), Request(GhostAsset, "1m", 0, Profile1, "binance")>> }

Call ==
    \/ \E request \in CorePool : create(request)
    \/ \E requests \in CoreBatches : bulkCreate(requests)
    \/ \E id \in 1..MaxTick : delete(id)
    \/ deleteBeforeDate(4)
    \/ \E faultAt \in {0, 2} : archiveDataBeforeDate(11, faultAt)
    \/ \E id \in 1..MaxTick, request \in UpdatePool : update(id, request)
    \/ \E beforeDate \in CutoffPool, faultAt \in 0..2 :
            compressDataToTimeframe("BTC", "1m", "5m", beforeDate, faultAt)
    \/ compressDataToTimeframe("BTC", "5m", "1m", 11, 0)

Next == Call /\ tick' <= MaxTick /\ UNCHANGED <<callers, sync>>

Spec == Init /\ [][Next]_vars

CallWrite ==
    \/ \E request \in RequestPool : create(request)
    \/ \E requests \in Batches : bulkCreate(requests)

NextWrite == CallWrite /\ tick' <= MaxTick /\ UNCHANGED <<callers, sync>>

SpecWrite == Init /\ [][NextWrite]_vars

CallArchive ==
    \/ \E request \in RequestPool : create(request)
    \/ \E beforeDate \in CutoffPool, faultAt \in 0..2 : archiveDataBeforeDate(beforeDate, faultAt)
    \/ \E beforeDate \in CutoffPool : deleteBeforeDate(beforeDate)

NextArchive == CallArchive /\ tick' <= MaxTick /\ UNCHANGED <<callers, sync>>

SpecArchive == Init /\ [][NextArchive]_vars

\* one-minute candles of two five-minute buckets, a five-minute candle that
\* occupies the first bucket, and a candle of another asset
CompressPool ==
    { Request("BTC", "1m", 0, Profile1, "binance"),
      Request("BTC", "1m", 4, Profile2, "binance"),
      Request("BTC", "1m", 5, Profile1, "binance"),
      Request("BTC", "5m", 0, Profile2, "binance"),
      Request("ETH", "1m", 0, Profile2, "binance") }

\* cutoffs at the start of the second bucket and after every candle
CompressCutoffs == {5, 11}

CallCompress ==
    \/ \E request \in CompressPool : create(request)
    \/ \E pair \in TimeframePairs, beforeDate \in CompressCutoffs, faultAt \in 0..2 :
            compressDataToTimeframe("BTC", pair[1], pair[2], beforeDate, faultAt)

NextCompress == CallCompress /\ tick' <= MaxCandles /\ UNCHANGED <<callers, sync>>

SpecCompress == Init /\ [][NextCompress]_vars

CallUpdate ==
    \/ \E request \in CorePool : create(request)
    \/ \E id \in 1..(MaxTick + 1), request \in BackfillPool : update(id, request)
    \/ \E id \in 1..MaxTick : delete(id)

NextUpdate == CallUpdate /\ tick' <= MaxTick /\ UNCHANGED <<callers, sync>>

SpecUpdate == Init /\ [][NextUpdate]_vars

\* hourly candles at minute offsets 0, 60, 90 and 240 and a candle of another
\* asset
(***************************************************************************)
(* The statistics engine keeps no state: every call is one step that       *)
(* records its arguments and its outcome.                                  *)
(***************************************************************************)
SeqsUpTo(S, n) == UNION {[1..k -> S] : k \in 0..n}

PriceValues == {Num(0), Num(1), Num(2)}

PricePool ==
    SeqsUpTo(PriceValues, MaxLen)
        \cup {<<Num(100), Num(120), Num(90), Num(150), Num(130)>>,
              <<Num(100), Num(110), Num(121)>>,
              <<Num(-1), Num(-2)>>, <<Num(2), Num(-1), Num(1)>>}

SeriesPool ==
    {<<>>, <<Num(1)>>, <<Num(1), Num(2)>>,
     <<Num(1), Num(2), Num(3)>>, <<Num(3), Num(1), Num(2)>>,
     <<Num(2), Num(2), Num(2)>>, <<Num(2), Num(-1), Num(2)>>,
     <<Frac(1, 10), Frac(-2, 10), Frac(3, 10)>>}

ConfidencePool ==
    {Frac(-1, 2), Num(0), Frac(1, 10), Frac(1, 2), Frac(19, 20), Num(1),
     Frac(11, 10), NaN}

RatePool == {Num(0), Frac(1, 10)}

MatrixSeries ==
    {<<Num(1), Num(2)>>, <<Num(1), Num(2), Num(3)>>, <<Num(3), Num(1), Num(2)>>,
     <<Num(2), Num(2), Num(2)>>}

CallEngine ==
    \/ \E prices \in PricePool : calculateReturns(prices)
    \/ \E values \in PricePool : calculateDrawdown(values)
    \/ \E returns \in SeriesPool, annualize \in BOOLEAN :
           calculateVolatility(returns, annualize)
    \/ \E series1 \in SeriesPool, series2 \in SeriesPool :
           calculateCorrelation(series1, series2)
    \/ \E returns \in SeriesPool, riskFreeRate \in RatePool :
           calculateSharpeRatio(returns, riskFreeRate)
    \/ \E returns \in SeriesPool, confidence \in ConfidencePool :
           calculateHistoricalVaR(returns, confidence)
    \/ \E series \in SeqsUpTo(MatrixSeries, MaxSeries) :
           calculateCorrelationMatrix(series)

NextEngine == CallEngine /\ UNCHANGED <<callers, sync>>

SpecEngine == Init /\ [][NextEngine]_vars

SymbolPool == {"BTC/USDT", "ETH/USDT", "UNKNOWN/USDT"}

SyncRequests ==
    {[symbols |-> symbols, timeframe |-> "1h", autoSinceLatest |-> auto] :
        symbols \in SeqsUpTo(SymbolPool, MaxSymbols), auto \in BOOLEAN}

\* what the exchange may answer for a symbol
Responses(symbol) ==
    IF symbol = "BTC/USDT"
    THEN {<<>>, <<Candle(symbol, 0, Profile1)>>,
          <<Candle(symbol, 0, Profile1), Candle(symbol, 60, Profile2)>>}
    ELSE {<<Candle(symbol, 30, Profile1)>>}

SeedPool == {Request("BTC", "1h", 0, Profile2, "seed")}

NextSync ==
    \/ \E request \in SeedPool : seed(request)
    \/ \E request \in SyncRequests : syncOHLCV(request)
    \/ \E i \in 1..MaxSymbols :
           \E candles \in Responses(IF sync.phase = "running" /\ i <= Len(sync.tasks)
                                     THEN sync.tasks[i].symbol ELSE "") :
               fetchResolved(i, candles)
    \/ \E i \in 1..MaxSymbols : fetchRejected(i)
    \/ syncReturn

SpecSync == Init /\ [][NextSync]_vars

\* every writing method but delete and deleteBeforeDate
CallKeep ==
    \/ \E request \in CorePool : create(request)
    \/ \E requests \in CoreBatches : bulkCreate(requests)
    \/ \E faultAt \in {0, 2} : archiveDataBeforeDate(4, faultAt)
    \/ \E id \in 1..MaxTick, request \in UpdatePool : update(id, request)
    \/ compressDataToTimeframe("BTC", "1m", "5m", 11, 0)

NextKeep == CallKeep /\ tick' <= MaxTick /\ UNCHANGED <<callers, sync>>

SpecKeep == Init /\ [][NextKeep]_vars

\* two requests for one key with different values and one for another asset
ConcurrentPool ==
    { Request("BTC", "1m", 0, Profile1, "binance"),
      Request("BTC", "1m", 0, Profile2, "kraken"),
      Request("ETH", "1m", 10, Profile1, Undefined) }

ConcurrentBatches ==
    { <<Request("BTC", "1m", 0, Profile2, "kraken")>>,
      <<Request("ETH", "1m", 10, Profile2, "kraken"),
        Request("BTC", "1m", 0, Profile2, "kraken")>>,
      <<Request("ETH", "1m", 10, Profile1, Undefined),
        Request("ETH", "1m", 10, Profile2, "kraken")>> }

NextConcurrent ==
    \/ \E c \in Callers, request \in ConcurrentPool : createRun(c, request)
    \/ \E c \in Callers : createRefetch(c)
    \/ \E c \in Callers, requests \in ConcurrentBatches : bulkCreateBy(c, requests)

SpecConcurrent == Init /\ [][NextConcurrent]_vars

ReadPool ==
    { Request("BTC", "1h", 0, Profile1, "binance"),
      Request("BTC", "1h", 60, Profile2, "binance"),
      Request("BTC", "1h", 90, Profile1, "kraken"),
      Request("BTC", "1h", 240, Profile2, "binance"),
      Request("ETH", "1h", 30, Profile1, "binance") }

FilterPool ==
    { [assetId |-> "BTC", timeframe |-> "1h"],
      [assetId |-> "BTC", timeframe |-> "1h", timestampFrom |-> 60, timestampTo |-> 90],
      [assetIds |-> {"BTC", "ETH"}, timeframes |-> {"1h"}, source |-> "binance"] }

PagePool ==
    { [n \in {} |-> 0],
      [limit |-> 2],
      [limit |-> 2, offset |-> 2],
      [limit |-> 1, offset |-> 1, orderBy |-> "timestamp_asc"],
      [limit |-> 2, offset |-> 0, orderBy |-> "timestamp_desc"],
      [limit |-> 0],
      [limit |-> 0, offset |-> 1, orderBy |-> "timestamp_asc"],
      [offset |-> 1] }

\* the keys the single-key reading methods are asked about
KeyPool == { <<"BTC", "1h">>, <<"ETH", "1h">> }

IntervalPool == {30, 60}

WindowPool ==
    { [n \in {} |-> 0],
      [from |-> 60, to |-> 90],
      [from |-> 60] }

CallRead ==
    \/ \E request \in ReadPool : create(request)
    \/ \E filters \in FilterPool, options \in PagePool : getTimeSeries(filters, options)
    \/ \E key \in KeyPool : getLatest(key[1], key[2])
    \/ \E key \in KeyPool : getEarliest(key[1], key[2])
    \/ \E key \in KeyPool : getDateRange(key[1], key[2])
    \/ \E key \in KeyPool, expectedInterval \in IntervalPool :
            findDataGaps(key[1], key[2], expectedInterval)
    \/ \E key \in KeyPool, window \in WindowPool : getStatistics(key[1], key[2], window)

NextRead == CallRead /\ tick' <= MaxStored /\ UNCHANGED <<callers, sync>>

SpecRead == Init /\ [][NextRead]_vars

(***************************************************************************)
(* Properties of the candle store.                                         *)
(***************************************************************************)
\* the number of rows of a table under one key
Count(table, key) == Cardinality({r \in table : Key(r) = key})

Keys(table) == {Key(r) : r \in table}

\* the OHLCV values of a row, an object or a request
OHLCV(x) == <<x.open, x.high, x.low, x.close, x.volume>>

\* the columns archiveDataBeforeDate copies
Columns(r) ==
    <<r.id, r.asset_id, r.timeframe, r.timestamp, r.open, r.high, r.low, r.close,
      r.volume, r.source, r.created_at>>

BatchKeys(requests) == {KeyOfRequest(requests[i]) : i \in 1..Len(requests)}

\* the first position of a key in a batch
FirstAt(requests, key) ==
    CHOOSE i \in 1..Len(requests) :
        /\ KeyOfRequest(requests[i]) = key
        /\ \A j \in 1..(i - 1) : KeyOfRequest(requests[j]) # key

\* the rows of a batch whose key a table already holds
SharedWithStore(requests, table) ==
    {i \in 1..Len(requests) : KeyOfRequest(requests[i]) \in Keys(table)}

DistinctKeys(requests) ==
    \A i, j \in 1..Len(requests) :
        KeyOfRequest(requests[i]) = KeyOfRequest(requests[j]) => i = j

\* the candles of an asset and a timeframe older than a cutoff
Older(table, assetId, timeframe, beforeDate) ==
    {r \in table : /\ r.asset_id = assetId
                   /\ r.timeframe = timeframe
                   /\ NewDate(r.timestamp) < beforeDate}

\* floor(timestamp / duration) * duration, in minutes
BucketStart(r, duration) == (NewDate(r.timestamp) \div duration) * duration

RECURSIVE SumOfVolumes(_)
SumOfVolumes(rows) ==
    IF rows = {} THEN 0
    ELSE LET r == CHOOSE x \in rows : TRUE
         IN  parseFloat(r.volume) + SumOfVolumes(rows \ {r})

\* the rows a write added to ohlcv_data under one key
Added(before, after, key) == {x \in after \ before : Key(x) = key}

\* C1: in every reachable state no two rows of ohlcv_data share
\* (asset_id, timeframe, timestamp)
C1_UniqueKey ==
    \A r1, r2 \in ohlcv_data : Key(r1) = Key(r2) => r1 = r2

\* a compress that found its bucket occupied, next to rows of the source timeframe
C1_Witness ==
    /\ last.op = "compressDataToTimeframe"
    /\ last.error = NoError
    /\ last.returned = 0
    /\ \E r1, r2 \in ohlcv_data : r1.timeframe = "1m" /\ r2.timeframe = "5m"
                                  /\ NewDate(r1.timestamp) < last.args.beforeDate

\* C2: a create that directly follows a successful create of the same key
\* returns the record the first call returned (same id, key, createdAt and
\* OHLCV values; the first call's values when the first call stored the row)
\* and adds no row, so that the two calls together add exactly one row when
\* the key was new
C2_InsertTwice ==
    [][(last'.op = "create" /\ last'.error = NoError /\ last'.again) =>
        LET key == KeyOfRequest(last'.request)
        IN  /\ last'.returned.id = last.returned.id
            /\ last'.returned.createdAt = last.returned.createdAt
            /\ KeyOfRequest(last'.returned) = KeyOfRequest(last.returned)
            /\ OHLCV(last'.returned) = OHLCV(last.returned)
            /\ last.changes = 1 => OHLCV(last'.returned) = OHLCV(last.request)
            /\ last'.changes = 0
            /\ Count(ohlcv_data', key) = 1
            /\ Count(ohlcv_data', key) - (Count(ohlcv_data, key) - last.changes)
                  = last.changes]_vars

\* the second create of a key, with other values than the first, after the
\* first one stored the row
C2_Witness ==
    /\ last.op = "create"
    /\ last.again
    /\ last.error = NoError
    /\ last.changes = 0
    /\ OHLCV(last.request) # OHLCV(last.returned)
    /\ last.returned.id = tick

\* C3: create, bulkCreate and compressDataToTimeframe leave every row that is
\* already stored exactly as it is
C3_FirstWriterWins ==
    [][last'.op \in {"create", "bulkCreate", "compressDataToTimeframe"} =>
        \A r \in ohlcv_data : r \in ohlcv_data']_vars

\* a bulkCreate that completed and carried a row for a stored key with other
\* values than the stored ones
C3_Witness ==
    /\ last.op = "bulkCreate"
    /\ last.error = NoError
    /\ \E i \in 1..Len(last.requests) : \E r \in ohlcv_data :
          /\ Key(r) = KeyOfRequest(last.requests[i])
          /\ OHLCV(r) # OHLCV(last.requests[i])
          /\ r.id <= tick - last.returned

\* C4: create never ends in RetrieveError; when its INSERT changed no row it
\* returns the row stored under the request's key
C4_NoRetrieveError ==
    last.op = "create" =>
        /\ last.error # RetrieveError
        /\ (last.error = NoError /\ last.changes = 0) =>
              /\ KeyOfRequest(last.returned) = KeyOfRequest(last.request)
              /\ \E r \in ohlcv_data : mapRowToOHLCV(r) = last.returned

\* a create whose INSERT was ignored
C4_Witness ==
    /\ last.op = "create"
    /\ last.error = NoError
    /\ last.changes = 0
    /\ Cardinality(ohlcv_data) = 1

\* C5 as stated: a bulkCreate that completes returns N - k and adds N - k
\* rows, N the length of the batch and k the number of its rows whose key the
\* store held before the call
C5_Original ==
    [][(last'.op = "bulkCreate" /\ last'.error = NoError) =>
        LET N == Len(last'.requests)
            k == Cardinality(SharedWithStore(last'.requests, ohlcv_data))
        IN  /\ last'.returned = N - k
            /\ Cardinality(ohlcv_data') - Cardinality(ohlcv_data) = N - k]_vars

\* C5 amended: the same for the batches whose keys are pairwise distinct
C5_DistinctKeys ==
    [][(last'.op = "bulkCreate" /\ last'.error = NoError /\ DistinctKeys(last'.requests)) =>
        LET N == Len(last'.requests)
            k == Cardinality(SharedWithStore(last'.requests, ohlcv_data))
        IN  /\ last'.returned = N - k
            /\ Cardinality(ohlcv_data') - Cardinality(ohlcv_data) = N - k]_vars

\* a batch of two keys, one of them stored before the call: N = 2, k = 1
C5_Witness ==
    /\ last.op = "bulkCreate"
    /\ last.error = NoError
    /\ Len(last.requests) = 2
    /\ DistinctKeys(last.requests)
    /\ last.returned = 1
    /\ \E i \in 1..2 : \E r \in ohlcv_data :
          Key(r) = KeyOfRequest(last.requests[i]) /\ r.id <= tick - 1

\* C6: a bulkCreate that completes returns the number of rows it added, which
\* is the number of distinct keys of the batch the store did not hold; each
\* such key is stored with the values of its first occurrence in the batch
C6_BulkCount ==
    [][(last'.op = "bulkCreate" /\ last'.error = NoError) =>
        LET requests == last'.requests
            fresh == BatchKeys(requests) \ Keys(ohlcv_data)
        IN  /\ last'.returned = Cardinality(ohlcv_data') - Cardinality(ohlcv_data)
            /\ last'.returned = Cardinality(fresh)
            /\ \A key \in fresh : \E r \in ohlcv_data' :
                  /\ Key(r) = key
                  /\ OHLCV(r) = OHLCV(requests[FirstAt(requests, key)])
                  /\ r.source = OrNull(requests[FirstAt(requests, key)].source)]_vars

\* a batch that carried a new key twice, with different values
C6_Witness ==
    /\ last.op = "bulkCreate"
    /\ last.error = NoError
    /\ last.returned = 1
    /\ Len(last.requests) = 2
    /\ KeyOfRequest(last.requests[1]) = KeyOfRequest(last.requests[2])
    /\ OHLCV(last.requests[1]) # OHLCV(last.requests[2])
    /\ \E r \in ohlcv_data : r.id = tick /\ Key(r) = KeyOfRequest(last.requests[1])

\* C7: a bulkCreate that fails leaves ohlcv_data as it was before the call
C7_AllOrNothing ==
    [][(last'.op = "bulkCreate" /\ last'.error # NoError) =>
        ohlcv_data' = ohlcv_data]_vars

\* a batch that failed at its second row after its first row had been inserted
C7_Witness ==
    /\ last.op = "bulkCreate"
    /\ last.error = StorageError
    /\ Len(last.requests) = 2
    /\ last.requests[2].assetId \notin assets
    /\ last.requests[1].assetId \in assets
    /\ KeyOfRequest(last.requests[1]) \notin Keys(ohlcv_data)

\* C8: after an archiveDataBeforeDate that completes no live row is older than
\* the cutoff, every row that was live and older is in the archive with the
\* columns it had, and every row at or after the cutoff is live and unchanged
C8_ArchiveMoves ==
    [][(last'.op = "archiveDataBeforeDate" /\ last'.error = NoError) =>
        LET cutoff == last'.beforeDate
        IN  /\ \A r \in ohlcv_data' : NewDate(r.timestamp) >= cutoff
            /\ \A r \in ohlcv_data : NewDate(r.timestamp) < cutoff =>
                  \E a \in ohlcv_data_archive' : Columns(a) = Columns(r)
            /\ \A r \in ohlcv_data : NewDate(r.timestamp) >= cutoff => r \in ohlcv_data'
            /\ ohlcv_data' \subseteq ohlcv_data]_vars

\* an archiving run that moved a row and left a row exactly at the cutoff live
C8_Witness ==
    /\ last.op = "archiveDataBeforeDate"
    /\ last.error = NoError
    /\ last.returned.archived >= 1
    /\ last.returned.deleted >= 1
    /\ \E r \in ohlcv_data : NewDate(r.timestamp) = last.beforeDate
    /\ \E a \in ohlcv_data_archive :
          a.archived_at = tick /\ NewDate(a.timestamp) < last.beforeDate

\* C9: an archiveDataBeforeDate that directly follows a successful run with the
\* same cutoff returns {archived: 0, deleted: 0} and changes neither table
C9_ArchiveTwice ==
    [][(last'.op = "archiveDataBeforeDate" /\ last'.error = NoError /\ last'.again) =>
        /\ last'.returned = [archived |-> 0, deleted |-> 0]
        /\ ohlcv_data' = ohlcv_data
        /\ ohlcv_data_archive' = ohlcv_data_archive]_vars

\* the second of two runs with one cutoff, the first of which archived rows
C9_Witness ==
    /\ last.op = "archiveDataBeforeDate"
    /\ last.error = NoError
    /\ last.again
    /\ \E a \in ohlcv_data_archive :
          a.archived_at = tick /\ NewDate(a.timestamp) < last.beforeDate

\* C10 as stated: the archive never holds two rows for one key, and an
\* archiving run never reports more rows copied than deleted
C10_ArchiveUniqueKey ==
    /\ \A a1, a2 \in ohlcv_data_archive : Key(a1) = Key(a2) => a1 = a2
    /\ (last.op = "archiveDataBeforeDate" /\ last.error = NoError) =>
          last.returned.archived <= last.returned.deleted

\* C11: an archiveDataBeforeDate or a compressDataToTimeframe that fails with
\* a storage error leaves ohlcv_data and ohlcv_data_archive as they were
\* before the call, and no archiveDataBeforeDate removes a live row without
\* the archive holding its columns afterwards
C11_Atomic ==
    [][/\ (/\ last'.op \in {"archiveDataBeforeDate", "compressDataToTimeframe"}
           /\ last'.error = StorageError) =>
              /\ ohlcv_data' = ohlcv_data
              /\ ohlcv_data_archive' = ohlcv_data_archive
       /\ last'.op = "archiveDataBeforeDate" =>
              \A r \in ohlcv_data \ ohlcv_data' :
                  \E a \in ohlcv_data_archive' : Columns(a) = Columns(r)]_vars

\* a compress that failed at its second bucket after its first bucket had
\* been inserted
C11_Witness ==
    /\ last.op = "compressDataToTimeframe"
    /\ last.error = StorageError
    /\ last.args.faultAt = 2
    /\ ~ \E r \in ohlcv_data : r.timeframe = last.args.toTimeframe
    /\ Cardinality({r \in ohlcv_data : r.timeframe = last.args.fromTimeframe}) = 2

\* C12: a compressDataToTimeframe whose target timeframe is not strictly
\* longer than its source timeframe in the table of minutes ends in the usage
\* error and changes no table
C12_Rejected ==
    [][(/\ last'.op = "compressDataToTimeframe"
        /\ timeframeMinutes[last'.args.toTimeframe]
              <= timeframeMinutes[last'.args.fromTimeframe]) =>
            /\ last'.error = UsageError
            /\ ohlcv_data' = ohlcv_data
            /\ ohlcv_data_archive' = ohlcv_data_archive]_vars

\* a compress from a timeframe to itself, rejected over a store with candles
\* of that timeframe
C12_Witness ==
    /\ last.op = "compressDataToTimeframe"
    /\ last.error = UsageError
    /\ last.args.toTimeframe = last.args.fromTimeframe
    /\ \E r \in ohlcv_data :
          /\ r.asset_id = last.args.assetId
          /\ r.timeframe = last.args.fromTimeframe
          /\ NewDate(r.timestamp) < last.args.beforeDate

C14_NoOverwrite ==
    [][(last'.op = "compressDataToTimeframe" /\ last'.error = NoError) =>
        LET a == last'.args
            duration == timeframeMinutes[a.toTimeframe]
            src == Older(ohlcv_data, a.assetId, a.fromTimeframe, a.beforeDate)
            target(table) == {r \in table : r.asset_id = a.assetId /\ r.timeframe = a.toTimeframe}
            free == {b \in {BucketStart(r, duration) : r \in src} :
                        <<a.assetId, a.toTimeframe, toISOString(b)>> \notin Keys(ohlcv_data)}
        IN  /\ target(ohlcv_data) \subseteq target(ohlcv_data')
            /\ last'.returned = Cardinality(free)
            /\ last'.returned = Cardinality(ohlcv_data' \ ohlcv_data)
            /\ last'.returned = Cardinality(target(ohlcv_data')) - Cardinality(target(ohlcv_data))
            /\ last'.again => /\ last'.returned = 0
                              /\ ohlcv_data' = ohlcv_data
                              /\ ohlcv_data_archive' = ohlcv_data_archive]_vars

\* the second of two equal compress calls, the first of which added a candle
\* for one bucket and skipped the bucket held by a candle of another source
C14_Witness ==
    /\ last.op = "compressDataToTimeframe"
    /\ last.error = NoError
    /\ last.again
    /\ last.returned = 0
    /\ \E x, y \in ohlcv_data :
          /\ x.id = tick /\ x.timeframe = "5m" /\ x.source = "compressed_from_1m"
          /\ y.timeframe = "5m" /\ y.source = "binance"
          /\ \E r \in Older(ohlcv_data, "BTC", "1m", last.args.beforeDate) :
                BucketStart(r, 5) = NewDate(y.timestamp)

\* C15: a compressDataToTimeframe, whatever its outcome, removes and changes
\* no stored candle, adds only candles of the given asset and the target
\* timeframe, and leaves the archive alone
C15_Additive ==
    [][last'.op = "compressDataToTimeframe" =>
        /\ ohlcv_data \subseteq ohlcv_data'
        /\ \A x \in ohlcv_data' \ ohlcv_data :
              /\ x.asset_id = last'.args.assetId
              /\ x.timeframe = last'.args.toTimeframe
        /\ ohlcv_data_archive' = ohlcv_data_archive]_vars

\* a compress that added a candle next to its source candles and a candle of
\* another asset
C15_Witness ==
    /\ last.op = "compressDataToTimeframe"
    /\ last.error = NoError
    /\ last.returned >= 1
    /\ \E r \in Older(ohlcv_data, "BTC", "1m", last.args.beforeDate) : r.id < tick
    /\ \E e \in ohlcv_data : e.asset_id = "ETH" /\ e.id < tick

\* the instants of the candles stored under (assetId, timeframe)
Instants(table, assetId, timeframe) ==
    {NewDate(r.timestamp) : r \in {x \in table : x.asset_id = assetId /\ x.timeframe = timeframe}}

\* the pairs of consecutive instants of a set
Consecutive(instants) ==
    {p \in instants \X instants :
        p[1] < p[2] /\ ~ \E t \in instants : p[1] < t /\ t < p[2]}

\* C16: findDataGaps returns, ascending, exactly one gap
\* {from: current + interval, to: next - interval} for every pair of
\* consecutive stored instants of the key with next > current + interval, and
\* nothing else; for candles at 0, 60 and 240 and interval 60 it returns the
\* one gap from 120 to 180
C16_Gaps ==
    last.op = "findDataGaps" =>
        LET instants == Instants(ohlcv_data, last.assetId, last.timeframe)
            interval == last.expectedInterval
            expected == {[from |-> p[1] + interval, to |-> p[2] - interval] :
                            p \in {q \in Consecutive(instants) : q[2] > q[1] + interval}}
            gaps == last.returned
        IN  /\ last.error = NoError
            /\ {gaps[i] : i \in 1..Len(gaps)} = expected
            /\ Len(gaps) = Cardinality(expected)
            /\ \A i, j \in 1..Len(gaps) : i < j => gaps[i].from < gaps[j].from
            /\ Cardinality(instants) < 2 => gaps = <<>>
            /\ (instants = {0, 60, 240} /\ interval = 60) =>
                  gaps = <<[from |-> 120, to |-> 180]>>

\* findDataGaps over candles at 0, 60 and 240 with interval 60
C16_Witness ==
    /\ last.op = "findDataGaps"
    /\ last.expectedInterval = 60
    /\ Instants(ohlcv_data, last.assetId, last.timeframe) = {0, 60, 240}
    /\ Len(last.returned) = 1

\* C17 as stated: every gap findDataGaps returns has from <= to, a length
\* that is a multiple of the interval, and an expected instant in it at which
\* no candle is stored
C17_WellFormedGaps ==
    last.op = "findDataGaps" =>
        \A i \in 1..Len(last.returned) :
            LET gap == last.returned[i]
            IN  /\ gap.from <= gap.to
                /\ (gap.to - gap.from) % last.expectedInterval = 0
                /\ gap.from \notin Instants(ohlcv_data, last.assetId, last.timeframe)

\* the candles a query selects: asset and timeframe as a single value or a
\* set, the instant within [timestampFrom, timestampTo], the source
Selected(table, filters) ==
    {r \in table :
        /\ Has(filters, "assetId") => r.asset_id = filters.assetId
        /\ Has(filters, "assetIds") => r.asset_id \in filters.assetIds
        /\ Has(filters, "timeframe") => r.timeframe = filters.timeframe
        /\ Has(filters, "timeframes") => r.timeframe \in filters.timeframes
        /\ Has(filters, "timestampFrom") => NewDate(r.timestamp) >= filters.timestampFrom
        /\ Has(filters, "timestampTo") => NewDate(r.timestamp) <= filters.timestampTo
        /\ Has(filters, "source") => r.source = filters.source}

\* candles in the order of their instants, ascending or descending
RECURSIVE ByInstant(_, _)
ByInstant(rows, ascending) ==
    IF rows = {} THEN <<>>
    ELSE LET head == CHOOSE r \in rows : \A x \in rows :
                        IF ascending THEN NewDate(r.timestamp) <= NewDate(x.timestamp)
                        ELSE NewDate(r.timestamp) >= NewDate(x.timestamp)
         IN  <<mapRowToOHLCV(head)>> \o ByInstant(rows \ {head}, ascending)

\* the positions offset .. offset + limit - 1 of a list, counted from 0
Positions(list, offset, limit) ==
    [i \in 1..(IF Len(list) - offset < limit THEN
                  (IF Len(list) - offset < 0 THEN 0 ELSE Len(list) - offset)
               ELSE limit) |-> list[offset + i]]

\* the page the latest getTimeSeries is expected to return
ExpectedPage ==
    LET ordered == ByInstant(Selected(ohlcv_data, last.filters),
                             Has(last.options, "orderBy")
                               /\ last.options.orderBy = "timestamp_asc")
    IN  Positions(ordered, IF Has(last.options, "offset") THEN last.options.offset ELSE 0,
                  last.options.limit)

\* C18 as stated: a getTimeSeries with a limit returns the selected candles,
\* ordered by instant in the requested order (descending by default), at the
\* positions offset .. offset + limit - 1
C18_Query ==
    (last.op = "getTimeSeries" /\ Has(last.options, "limit")) =>
        /\ last.error = NoError
        /\ last.returned = ExpectedPage

\* the same for the limits of at least 1: this much holds
C18_PositiveLimit ==
    (last.op = "getTimeSeries" /\ Has(last.options, "limit") /\ last.options.limit >= 1) =>
        /\ last.error = NoError
        /\ last.returned = ExpectedPage

\* the candles of a key whose instant lies in the window [from, to]
Windowed(table, assetId, timeframe, window) ==
    {r \in table :
        /\ r.asset_id = assetId /\ r.timeframe = timeframe
        /\ Has(window, "from") => NewDate(r.timestamp) >= window.from
        /\ Has(window, "to") => NewDate(r.timestamp) <= window.to}

\* C19 as stated: getStatistics computes count, avgVolume, maxHigh and minLow
\* over the candles inside the window, and firstOpen and lastClose are the
\* open of the earliest and the close of the latest candle inside the window
C19_WindowedStatistics ==
    last.op = "getStatistics" =>
        LET rows == Windowed(ohlcv_data, last.assetId, last.timeframe, last.window)
            first == CHOOSE r \in rows :
                        \A x \in rows : NewDate(r.timestamp) <= NewDate(x.timestamp)
            final == CHOOSE r \in rows :
                        \A x \in rows : NewDate(x.timestamp) <= NewDate(r.timestamp)
            stats == last.returned
        IN  /\ stats.count = Cardinality(rows)
            /\ rows # {} =>
                  /\ stats.avgVolume[1] * Cardinality(rows) = SumOfVolumes(rows) * stats.avgVolume[2]
                  /\ stats.maxHigh = MaxOf({parseFloat(r.high) : r \in rows})
                  /\ stats.minLow = MinOf({parseFloat(r.low) : r \in rows})
                  /\ stats.firstOpen = <<parseFloat(first.open)>>
                  /\ stats.lastClose = <<parseFloat(final.close)>>

\* C20: for every key, in every reachable state, getLatest and getEarliest
\* return the first candle of getTimeSeries with limit 1 in descending and in
\* ascending order, which are the candles of the greatest and the least
\* instant of the key; getDateRange reports their instants and the number of
\* candles of the key; the two candles and the two bounds are null exactly
\* when that number is 0
C20_SingleRowQueries ==
    \A key \in KeyPool :
        LET filters == [assetId |-> key[1], timeframe |-> key[2]]
            desc == TimeSeries(ohlcv_data, filters, [limit |-> 1, orderBy |-> "timestamp_desc"]).rows
            asc == TimeSeries(ohlcv_data, filters, [limit |-> 1, orderBy |-> "timestamp_asc"]).rows
            latest == Latest(ohlcv_data, key[1], key[2])
            earliest == Earliest(ohlcv_data, key[1], key[2])
            range == DateRange(ohlcv_data, key[1], key[2])
            instants == Instants(ohlcv_data, key[1], key[2])
            n == Cardinality({r \in ohlcv_data : r.asset_id = key[1] /\ r.timeframe = key[2]})
        IN  /\ latest = (IF desc = <<>> THEN NullRecord ELSE desc[1])
            /\ earliest = (IF asc = <<>> THEN NullRecord ELSE asc[1])
            /\ range.count = n
            /\ n = 0 => /\ latest = NullRecord /\ earliest = NullRecord
                        /\ range.latest = <<>> /\ range.earliest = <<>>
            /\ n > 0 => /\ latest # NullRecord /\ earliest # NullRecord
                        /\ range.latest = <<latest.timestamp>>
                        /\ range.earliest = <<earliest.timestamp>>
                        /\ \A t \in instants : earliest.timestamp <= t /\ t <= latest.timestamp

\* getDateRange over a key with candles at different instants, next to a
\* key with no candle
C20_Witness ==
    /\ last.op = "getDateRange"
    /\ last.returned.count >= 2
    /\ last.returned.earliest # last.returned.latest
    /\ \E key \in KeyPool : DateRange(ohlcv_data, key[1], key[2]).count = 0

\* the part of C21 about what update leaves alone: no step changes the key
\* or created_at of a row that stays live; update keeps the set of ids,
\* touches no row of another id, and for an id that is not stored returns
\* null and changes nothing
C21_Frame ==
    [][/\ \A r \in ohlcv_data : \A x \in ohlcv_data' :
              x.id = r.id => Key(x) = Key(r) /\ x.created_at = r.created_at
       /\ last'.op = "update" =>
              /\ {r.id : r \in ohlcv_data'} = {r.id : r \in ohlcv_data}
              /\ \A r \in ohlcv_data : r.id # last'.id => r \in ohlcv_data'
              /\ ohlcv_data_archive' = ohlcv_data_archive
              /\ (~ \E r \in ohlcv_data : r.id = last'.id) =>
                    last'.returned = NullRecord /\ ohlcv_data' = ohlcv_data]_vars

\* C21 as stated: the above, and the record an update of a stored id
\* returns is the record stored under that id afterwards
C21_Update ==
    [][/\ \A r \in ohlcv_data : \A x \in ohlcv_data' :
              x.id = r.id => Key(x) = Key(r) /\ x.created_at = r.created_at
       /\ last'.op = "update" =>
              /\ {r.id : r \in ohlcv_data'} = {r.id : r \in ohlcv_data}
              /\ \A r \in ohlcv_data : r.id # last'.id => r \in ohlcv_data'
              /\ ohlcv_data_archive' = ohlcv_data_archive
              /\ (~ \E r \in ohlcv_data : r.id = last'.id) =>
                    last'.returned = NullRecord /\ ohlcv_data' = ohlcv_data
              /\ (\E r \in ohlcv_data : r.id = last'.id) =>
                    last'.returned = getById(ohlcv_data', last'.id)]_vars

(***************************************************************************)
(* Statistics engine                                                       *)
(***************************************************************************)
LessOrEqual(a, b) == LessThan(a, b) \/ StrictEquals(a, b)

\* values[i] sets a new running peak: it is the first value or exceeds every
\* value before it
NewPeak(values, i) == \A j \in 1..(i - 1) : LessThan(values[j], values[i])

\* the position at which the largest of values[1..e] first occurs
RunningPeakAt(values, e) ==
    CHOOSE i \in 1..e :
        /\ \A j \in 1..e : LessOrEqual(values[j], values[i])
        /\ \A j \in 1..(i - 1) : LessThan(values[j], values[i])

\* what C22 says of a drawdown report for the input values
DrawdownReport(values, error, report) ==
    /\ error = NoError
    /\ Len(report.drawdowns) = Len(values)
    /\ \A i \in 1..Len(values) :
          /\ LessOrEqual(report.drawdowns[i], Num(0))
          /\ NewPeak(values, i) => report.drawdowns[i] = Num(0)
    /\ \E i \in 1..Len(values) :
          /\ report.drawdowns[i] = report.maxDrawdown
          /\ \A j \in 1..(i - 1) : report.drawdowns[j] # report.maxDrawdown
          /\ report.maxDrawdownPeriod.end = i - 1
          /\ report.maxDrawdownPeriod.start = RunningPeakAt(values, i) - 1
    /\ \A i \in 1..Len(values) : LessOrEqual(report.maxDrawdown, report.drawdowns[i])
    /\ report.maxDrawdownPeriod.start <= report.maxDrawdownPeriod.end

\* C22 as stated: for every non-empty input the drawdown series has the
\* length of the input, every entry is <= 0 and is 0 where a new running peak
\* is set, maxDrawdown is the minimum of the series, and the period runs from
\* the running peak in force to the first index where the minimum is reached
C22_Drawdown ==
    (last.op = "calculateDrawdown" /\ Len(last.values) > 0)
        => DrawdownReport(last.values, last.error, last.returned)

\* C22 for inputs whose first value is positive, so that every running peak
\* is positive: the report has the properties C22 states
C22_PositivePeak ==
    (last.op = "calculateDrawdown" /\ Len(last.values) > 0
        /\ LessThan(Num(0), last.values[1]))
        => DrawdownReport(last.values, last.error, last.returned)

C22_Witness ==
    /\ last.op = "calculateDrawdown"
    /\ last.values = <<Num(100), Num(120), Num(90), Num(150), Num(130)>>
    /\ last.returned.maxDrawdown = Frac(-1, 4)
    /\ last.returned.maxDrawdownPeriod = [start |-> 1, end |-> 2]
    /\ last.returned.drawdowns = <<Num(0), Num(0), Frac(-1, 4), Num(0), Frac(-2, 15)>>

\* C24: returns fails with the too-few-prices error for fewer than two
\* prices, with the zero-previous-price error when a price other than the
\* last is zero, and otherwise returns the len-1 values (p[i+1] - p[i]) / p[i]
C24_Returns ==
    last.op = "calculateReturns" =>
        LET p == last.prices
        IN  IF Len(p) < 2 THEN last.error = TooFewPrices
            ELSE IF \E i \in 1..(Len(p) - 1) : p[i] = Num(0)
            THEN last.error = ZeroPrevious
            ELSE /\ last.error = NoError
                 /\ Len(last.returned) = Len(p) - 1
                 /\ \A i \in 1..(Len(p) - 1) :
                       /\ isFinite(last.returned[i])
                       /\ Times(last.returned[i], p[i]) = Minus(p[i + 1], p[i])

\* a zero in the last position alone is no error
C24_Witness ==
    /\ last.op = "calculateReturns"
    /\ last.prices = <<Num(2), Num(1), Num(0)>>
    /\ last.error = NoError
    /\ last.returned = <<Frac(-1, 2), Num(-1)>>

\* every number of the result of the last engine call is finite
FiniteResult ==
    CASE last.op = "calculateReturns" ->
             \A i \in 1..Len(last.returned) : isFinite(last.returned[i])
      [] last.op = "calculateDrawdown" ->
             /\ \A i \in 1..Len(last.returned.drawdowns) :
                    isFinite(last.returned.drawdowns[i])
             /\ isFinite(last.returned.maxDrawdown)
             /\ isFinite(last.returned.averageDrawdown)
      [] last.op = "calculateCorrelationMatrix" ->
             \A i, j \in 1..Len(last.returned) : isFinite(last.returned[i][j])
      [] last.op \in {"calculateVolatility", "calculateCorrelation",
                      "calculateSharpeRatio", "calculateHistoricalVaR"} ->
             isFinite(last.returned)
      [] OTHER -> TRUE

\* C23: an engine call that does not fail returns finite numbers only
C23_Finite == last.error = NoError => FiniteResult

\* the number of entries of array that are less than x
Below(array, x) == Cardinality({i \in 1..Len(array) : LessThan(array[i], x)})

\* the number of entries of array that are greater than x
Above(array, x) == Cardinality({i \in 1..Len(array) : LessThan(x, array[i])})

\* what C25 says of a call with a usable confidence: no error, the index is
\* within the array, the result is the input's element of that rank, and
\* the caller's array is as it was
VaRResult ==
    LET n == Len(last.input)
        position == Position(last.confidence, n)
    IN  /\ last.error = NoError
        /\ isFinite(position) /\ position[2] = 1
        /\ position[1] \in 0..(n - 1)
        /\ \E i \in 1..n : last.input[i] = last.returned
        /\ Below(last.input, last.returned) <= position[1]
        /\ position[1] < n - Above(last.input, last.returned)
        /\ last.returns = last.input

\* C25 as stated: historicalVaR fails for an empty input or a confidence
\* that is not strictly between 0 and 1, and otherwise returns the element
\* at index max(0, ceil((1 - confidence) * n) - 1) of the ascending sort
C25_VaR ==
    last.op = "calculateHistoricalVaR" =>
        IF Len(last.input) = 0
           \/ ~(LessThan(Num(0), last.confidence) /\ LessThan(last.confidence, Num(1)))
        THEN last.error # NoError
        ELSE VaRResult

\* the same for a confidence that is a number
C25_NumericConfidence ==
    (last.op = "calculateHistoricalVaR" /\ last.confidence # NaN) =>
        IF Len(last.input) = 0
           \/ ~(LessThan(Num(0), last.confidence) /\ LessThan(last.confidence, Num(1)))
        THEN last.error # NoError
        ELSE VaRResult

KeysOfCall(c) ==
    IF callers[c].pc = "idle" THEN {}
    ELSE IF callers[c].op = "create" THEN {KeyOfRequest(callers[c].request)}
    ELSE BatchKeys(callers[c].requests)

\* no other caller has begun a call that writes to an asset of caller c's call
AloneOnItsAssets(c) ==
    \A d \in Callers \ {c} : \A k \in KeysOfCall(c), h \in KeysOfCall(d) : k[1] # h[1]

\* C27: whatever the order of the statements of concurrent create and
\* bulkCreate calls, a key is stored at most once, no call ends in an error,
\* a create between its INSERT and its SELECT finds its key stored, every
\* finished create returned the one row stored under its key, and a call
\* that is alone on its assets has the outcome it has when it runs alone
C27_Concurrent ==
    /\ \A r1, r2 \in ohlcv_data : Key(r1) = Key(r2) => r1 = r2
    /\ \A c \in Callers :
          /\ callers[c].pc = "ignored" =>
                Count(ohlcv_data, KeyOfRequest(callers[c].request)) = 1
          /\ callers[c].pc = "done" => callers[c].error = NoError
          /\ (callers[c].pc = "done" /\ callers[c].op = "create") =>
                /\ KeyOfRequest(callers[c].returned) = KeyOfRequest(callers[c].request)
                /\ \E r \in ohlcv_data :
                      /\ Key(r) = KeyOfRequest(callers[c].request)
                      /\ r.id = callers[c].returned.id
                      /\ OHLCV(r) = OHLCV(callers[c].returned)
                /\ AloneOnItsAssets(c) =>
                      OHLCV(callers[c].returned) = OHLCV(callers[c].request)
          /\ (callers[c].pc = "done" /\ callers[c].op = "bulkCreate"
                 /\ AloneOnItsAssets(c)) =>
                callers[c].returned = Cardinality(BatchKeys(callers[c].requests))

\* two finished creates of one key with different values, and a finished
\* bulkCreate or create on the other asset
C27_Witness ==
    \E c, d \in Callers :
        /\ c # d
        /\ callers[c].pc = "done" /\ callers[c].op = "create"
        /\ callers[d].pc = "done" /\ callers[d].op = "create"
        /\ KeyOfRequest(callers[c].request) = KeyOfRequest(callers[d].request)
        /\ OHLCV(callers[c].request) # OHLCV(callers[d].request)
        /\ callers[c].returned.id = callers[d].returned.id
        /\ Count(ohlcv_data, KeyOfRequest(callers[c].request)) = 1

\* a create whose INSERT was ignored because a bulkCreate of another caller
\* had stored the key, and which returned that row
C27_WitnessBulk ==
    \E c, d \in Callers :
        /\ callers[c].pc = "done" /\ callers[c].op = "create"
        /\ callers[d].pc = "done" /\ callers[d].op = "bulkCreate"
        /\ KeyOfRequest(callers[c].request) \in BatchKeys(callers[d].requests)
        /\ OHLCV(callers[c].returned) # OHLCV(callers[c].request)

\* C28: no step of create, bulkCreate, compressDataToTimeframe, update or
\* archiveDataBeforeDate removes a row from the archive, and the key of every
\* live row is afterwards live or archived with the row's OHLCV values
C28_NoLoss ==
    [][/\ \A a \in ohlcv_data_archive : a \in ohlcv_data_archive'
       /\ \A r \in ohlcv_data :
             \/ \E x \in ohlcv_data' : Key(x) = Key(r)
             \/ \E a \in ohlcv_data_archive' : Key(a) = Key(r) /\ OHLCV(a) = OHLCV(r)]_vars

\* a key archived twice, the second time with other values, and live no more
C28_Witness ==
    /\ last.op = "archiveDataBeforeDate"
    /\ last.error = NoError
    /\ \E a, b \in ohlcv_data_archive :
          /\ Key(a) = Key(b)
          /\ OHLCV(a) # OHLCV(b)
          /\ ~ \E r \in ohlcv_data : Key(r) = Key(a)

RECURSIVE SumInserted(_, _)
SumInserted(summaries, k) ==
    IF k > Len(summaries) THEN 0
    ELSE summaries[k].inserted + SumInserted(summaries, k + 1)

\* how often a symbol occurs in a sequence of records with a symbol
Occurrences(records, symbol) ==
    Cardinality({k \in 1..Len(records) : records[k].symbol = symbol})

\* C29: while syncOHLCV runs and when it has returned, totalInserted is the
\* sum of the summaries' inserted counts and the increase of the number of
\* stored candles; a symbol without an asset has its error summary and no
\* call of the fetcher; when the call has returned, whatever the order in
\* which the fetches settled, every symbol has as many summaries as the
\* request names it, a rejected fetch has an error summary with inserted 0,
\* and every candle of a resolved fetch is stored
C29_Sync ==
    sync.phase \in {"running", "returned"} =>
        LET symbols == sync.request.symbols
            summaries == sync.summaries
            tasks == sync.tasks
        IN  /\ sync.totalInserted = SumInserted(summaries, 1)
            /\ sync.totalInserted = Cardinality(ohlcv_data) - sync.countBefore
            /\ \A i \in 1..Len(symbols) :
                  getBySymbol(symbols[i]) = <<>> =>
                      /\ Occurrences(sync.calls, symbols[i]) = 0
                      /\ \E k \in 1..Len(summaries) :
                            /\ summaries[k].symbol = symbols[i]
                            /\ summaries[k].error = AssetNotFound(symbols[i])
                            /\ summaries[k].inserted = 0
            /\ sync.phase = "returned" =>
                  /\ Len(summaries) = Len(symbols)
                  /\ \A symbol \in SymbolPool :
                        Occurrences(summaries, symbol)
                            = Cardinality({i \in 1..Len(symbols) : symbols[i] = symbol})
                  /\ \A i \in 1..Len(tasks) :
                        /\ tasks[i].state = "rejected" =>
                              \E k \in 1..Len(summaries) :
                                  /\ summaries[k].symbol = tasks[i].symbol
                                  /\ summaries[k].error = ExchangeError
                                  /\ summaries[k].inserted = 0
                        /\ tasks[i].state = "resolved" =>
                              \A c \in 1..Len(tasks[i].candles) :
                                  <<tasks[i].assetId, sync.request.timeframe,
                                    toISOString(tasks[i].candles[c].timestamp)>>
                                      \in Keys(ohlcv_data)

\* the repository test's call, returned: one of the two fetched BTC candles
\* was stored before, and the ETH fetch settled first
C29_Witness ==
    /\ sync.phase = "returned"
    /\ sync.request.symbols = <<"BTC/USDT", "ETH/USDT">>
    /\ sync.countBefore = 1
    /\ sync.totalInserted = 2
    /\ sync.summaries[1].symbol = "ETH/USDT"
    /\ sync.summaries[2].fetched = 2
    /\ sync.summaries[2].inserted = 1

\* a symbol requested twice, both fetches resolved with the same two candles
C29_WitnessTwice ==
    /\ sync.phase = "returned"
    /\ sync.request.symbols = <<"BTC/USDT", "BTC/USDT">>
    /\ sync.summaries[1].fetched = 2 /\ sync.summaries[1].inserted = 2
    /\ sync.summaries[2].fetched = 2 /\ sync.summaries[2].inserted = 0
    /\ sync.totalInserted = 2
====
